---------------------------- MODULE Spec2Model ----------------------------
(***************************************************************************)
(* Model of the inventory / sales CRUD API (src/app_api).                  *)
(*                                                                         *)
(* State: the relational store the handlers read and write (one function   *)
(* per table, keyed by primary key), the AUTO_INCREMENT counters of the    *)
(* tables, and the response of the last request.  Every request runs in    *)
(* its own SQLAlchemy session (database.py get_db): writes go to the       *)
(* session's transaction, db.commit() makes them the store's content, and  *)
(* an exit without commit discards them when the session is closed.        *)
(* sessions holds the requests in flight where their steps interleave.     *)
(* The store enforces exactly the constraints declared in                  *)
(* models/sqlalchemy_models.py (unique, nullable=False, ForeignKey).       *)
(*                                                                         *)
(* Optional values: None is <<>>, a present value v is <<v>>.              *)
(* Strings are sequences of one-character strings.                         *)
(***************************************************************************)
EXTENDS Integers, Sequences, FiniteSets, TLC

VARIABLES db, autoinc, resp, sessions

vars == <<db, autoinc, resp, sessions>>

---------------------------------------------------------------------------
(* Bounds of the model *)

MaxCategoryId == 1
MaxProductId == 1
MaxSaleId == 2
MaxSaleItemId == 3
MaxItems == 2
MaxStockInId == 2
MaxStockInItemId == 3
MaxPage == 3
MaxLimit == 2
MaxListRows == 3
MaxStrLen == 4
MaxMovementId == 2
MaxRequests == 2
MaxViewRows == 2

---------------------------------------------------------------------------
(* Optional values and strings *)

None == <<>>

Some(v) == <<v>>

IsNone(o) == o = <<>>

Val(o) == o[1]

\* Python truthiness of an Optional[str]: None and "" are falsy
Truthy(o) == o # None /\ Val(o) # <<>>

Tea == <<"T", "e", "a">>
tea == <<"t", "e", "a">>
Milk == <<"M", "i", "l", "k">>
Cup == <<"C", "u", "p">>
S1 == <<"S", "1">>
EmptyStr == <<>>

UpperCase ==
    <<"A", "B", "C", "D", "E", "F", "G", "H", "I", "J", "K", "L", "M",
      "N", "O", "P", "Q", "R", "S", "T", "U", "V", "W", "X", "Y", "Z">>

LowerCase ==
    <<"a", "b", "c", "d", "e", "f", "g", "h", "i", "j", "k", "l", "m",
      "n", "o", "p", "q", "r", "s", "t", "u", "v", "w", "x", "y", "z">>

Letters == 1..Len(UpperCase)

ToLower == [c \in {UpperCase[i] : i \in Letters} |->
               LowerCase[CHOOSE i \in Letters : UpperCase[i] = c]]

ToUpper == [c \in {LowerCase[i] : i \in Letters} |->
               UpperCase[CHOOSE i \in Letters : LowerCase[i] = c]]

LowerChar(c) == IF c \in DOMAIN ToLower THEN ToLower[c] ELSE c

UpperChar(c) == IF c \in DOMAIN ToUpper THEN ToUpper[c] ELSE c

Lower(s) == [i \in DOMAIN s |-> LowerChar(s[i])]

\* str.upper()
Upper(s) == [i \in DOMAIN s |-> UpperChar(s[i])]

\* The store's collation as a sort key: case-insensitive, character by
\* character, for strings of up to MaxStrLen characters
Rank == [c \in {LowerCase[i] : i \in Letters} |->
            CHOOSE i \in Letters : LowerCase[i] = c]

CharRank(c) == IF LowerChar(c) \in DOMAIN Rank THEN Rank[LowerChar(c)] ELSE 0

RECURSIVE StrKeyFrom(_, _)
StrKeyFrom(s, i) ==
    IF i > MaxStrLen THEN 0
    ELSE (IF i <= Len(s) THEN CharRank(s[i]) ELSE 0) * (27 ^ (MaxStrLen - i))
         + StrKeyFrom(s, i + 1)

StrKey(s) == StrKeyFrom(s, 1)

\* str.capitalize(): first character upper case, the rest lower case
capitalize(s) == [i \in DOMAIN s |-> IF i = 1 THEN UpperChar(s[i]) ELSE LowerChar(s[i])]

\* SQL  column ILIKE '%term%'
ilike(s, term) ==
    \E i \in 1..(Len(s) - Len(term) + 1) :
        SubSeq(Lower(s), i, i + Len(term) - 1) = Lower(term)

---------------------------------------------------------------------------
(* The store *)

EmptyTable == [id \in {} |-> None]

EmptyDb ==
    [category |-> EmptyTable, product |-> EmptyTable,
     sale |-> EmptyTable, sale_item |-> EmptyTable,
     stock_in |-> EmptyTable, stock_in_item |-> EmptyTable,
     inventory_movement |-> EmptyTable, v_product_stock |-> EmptyTable,
     v_profitability_report |-> EmptyTable]

InitAutoinc ==
    [category |-> 1, product |-> 1, sale |-> 1, sale_item |-> 1,
     stock_in |-> 1, stock_in_item |-> 1]

Ids(t) == DOMAIN t

Rows(t, P(_)) == {id \in DOMAIN t : P(t[id])}

Remove(t, S) == [id \in (DOMAIN t) \ S |-> t[id]]

\* unique=True: no two rows share a non-NULL value of the column
UniqueOK(t, col(_)) ==
    \A a, b \in DOMAIN t : (a # b /\ col(t[a]) # None) => col(t[a]) # col(t[b])

\* ForeignKey(...): a non-NULL reference names an existing row
ForeignKeyOK(t, col(_), parent) ==
    \A a \in DOMAIN t : col(t[a]) # None => Val(col(t[a])) \in DOMAIN parent

\* nullable=False
NotNullOK(t, col(_)) == \A a \in DOMAIN t : col(t[a]) # None

CategoryName(r) == Some(r.name)
ProductSku(r) == r.sku
ProductCategory(r) == r.category_id
ProductName(r) == r.name
ProductPrice(r) == r.price
ProductReorderLevel(r) == r.reorder_level
ItemProduct(r) == r.product_id
ItemSale(r) == Some(r.sale_id)
ItemStockIn(r) == Some(r.stock_in_id)
SaleDatetime(r) == r.sale_datetime
SalePaymentMethod(r) == r.payment_method

\* Enum('Cash', 'Card', 'QR'): a value outside the enumeration is refused
EnumOK(t, values) ==
    \A a \in DOMAIN t : t[a].payment_method # None => Val(t[a].payment_method) \in values

\* ON DELETE CASCADE of the store's schema: the rows of table child whose
\* column names the deleted parent row go with it
OnDeleteCascade(d, child, column, id) ==
    [d EXCEPT ![child] = Remove(@, {i \in DOMAIN d[child] : d[child][i][column] = id})]

\* The constraints the schema declares; a statement that breaks one raises
\* IntegrityError
IntegrityOK(d) ==
    /\ UniqueOK(d.category, CategoryName)
    /\ UniqueOK(d.product, ProductSku)
    /\ ForeignKeyOK(d.product, ProductCategory, d.category)
    /\ NotNullOK(d.product, ProductName)
    /\ NotNullOK(d.product, ProductPrice)
    /\ NotNullOK(d.product, ProductReorderLevel)
    /\ NotNullOK(d.sale, SaleDatetime)
    /\ NotNullOK(d.sale, SalePaymentMethod)
    /\ EnumOK(d.sale, {<<"C", "a", "s", "h">>, <<"C", "a", "r", "d">>, <<"Q", "R">>})
    /\ ForeignKeyOK(d.sale_item, ItemSale, d.sale)
    /\ ForeignKeyOK(d.sale_item, ItemProduct, d.product)
    /\ NotNullOK(d.sale_item, ItemProduct)
    /\ ForeignKeyOK(d.stock_in_item, ItemStockIn, d.stock_in)
    /\ ForeignKeyOK(d.stock_in_item, ItemProduct, d.product)
    /\ NotNullOK(d.stock_in_item, ItemProduct)
    /\ ForeignKeyOK(d.inventory_movement, ItemProduct, d.product)
    /\ NotNullOK(d.inventory_movement, ItemProduct)

---------------------------------------------------------------------------
(* The session of one request *)

\* SessionLocal(): a transaction on the store's current content; `new` holds
\* the objects given to db.add() and not yet flushed (autoflush=False)
SessionLocal(d, ai) == [tx |-> d, ai |-> ai, new |-> <<>>, added |-> 0]

\* db.add(obj)
Add(s, table, row) ==
    [s EXCEPT !.new = Append(@, [table |-> table, row |-> row]),
              !.added = @ + 1]

\* INSERT of one row: the table's AUTO_INCREMENT value is its primary key
Insert(s, table, row) ==
    [s EXCEPT !.tx[table] = @ @@ (s.ai[table] :> row),
              !.ai[table] = @ + 1]

RECURSIVE FlushFrom(_, _)
FlushFrom(s, i) ==
    IF i > Len(s.new) THEN [s EXCEPT !.new = <<>>]
    ELSE FlushFrom(Insert(s, s.new[i].table, s.new[i].row), i + 1)

\* db.flush(): the pending objects are inserted in the order they were added
Flush(s) == FlushFrom(s, 1)

\* A handler's exit.  status, detail: the HTTP status and the id the error
\* message names (0: none); db, ai: the store after the session is closed.
Exit(status, detail, body, d, s) ==
    [status |-> status, detail |-> detail, body |-> body,
     db |-> d, ai |-> s.ai, added |-> s.added]

\* Faulty variant: closing the session keeps what the transaction had flushed
RaiseKeepsFlushed(status, detail, d0, s) == Exit(status, detail, <<>>, s.tx, s)

\* raise HTTPException(...) before any commit: get_db's finally closes the
\* session, which rolls the transaction back; the store keeps content d0.
\* AUTO_INCREMENT values taken by flushed inserts are not given back.
Raise(status, detail, d0, s) == Exit(status, detail, <<>>, d0, s)

\* db.commit() followed by the handler's return: flush, then either the
\* transaction becomes the store's content, or a constraint is broken,
\* IntegrityError propagates (500) and the session is closed without commit.
Commit(status, body, d0, s) ==
    LET f == Flush(s) IN
    IF IntegrityOK(f.tx)
    THEN Exit(status, 0, body, f.tx, f)
    ELSE Exit(500, 0, <<>>, d0, f)

---------------------------------------------------------------------------
(* routers/categories.py *)

CategoryNames == {Tea, Milk}

\* .first() of a query with no ORDER BY: any matching row, None if none
FirstOf(S) == IF S = {} THEN {None} ELSE {Some(id) : id \in S}

CategoriesNamed(d, name) == {id \in DOMAIN d.category : d.category[id].name = name}

create_category(d0, ai, category) ==
    LET s == SessionLocal(d0, ai) IN
    IF CategoriesNamed(s.tx, category.name) # {}
    THEN Raise(400, 0, d0, s)
    ELSE LET s1 == Add(s, "category", [name |-> category.name])
         IN Commit(201, [category_id |-> s.ai.category, name |-> category.name], d0, s1)

get_category_by_id(d0, ai, category_id) ==
    LET s == SessionLocal(d0, ai) IN
    IF category_id \notin DOMAIN s.tx.category
    THEN Raise(404, 0, d0, s)
    ELSE Exit(200, 0, [category_id |-> category_id,
                       name |-> s.tx.category[category_id].name], d0, s)

\* Faulty variant: no check of the new name against the other categories
update_category_unchecked(d0, ai, category_id, category_update, existing) ==
    LET s == SessionLocal(d0, ai) IN
    IF category_id \notin DOMAIN s.tx.category
    THEN Raise(404, 0, d0, s)
    ELSE LET s1 == [s EXCEPT !.tx.category[category_id].name = category_update.name]
         IN Commit(200, [category_id |-> category_id, name |-> category_update.name],
                   d0, s1)

\* existing: the row .first() returned for the name query
update_category(d0, ai, category_id, category_update, existing) ==
    LET s == SessionLocal(d0, ai) IN
    IF category_id \notin DOMAIN s.tx.category
    THEN Raise(404, 0, d0, s)
    ELSE IF existing # None /\ Val(existing) # category_id
    THEN Raise(400, 0, d0, s)
    ELSE LET s1 == [s EXCEPT !.tx.category[category_id].name = category_update.name]
         IN Commit(200, [category_id |-> category_id, name |-> category_update.name],
                   d0, s1)

\* Faulty variant: the children are left as they are (passive_deletes)
KeepProducts(d, category_id) == d

\* relationship("ProductDB", back_populates="category") has the default
\* cascade and no passive_deletes: deleting the parent sets the children's
\* category_id to NULL before the DELETE
NullifyProducts(d, category_id) ==
    [d EXCEPT !.product =
        [p \in DOMAIN d.product |->
            IF d.product[p].category_id = Some(category_id)
            THEN [d.product[p] EXCEPT !.category_id = None]
            ELSE d.product[p]]]

delete_category(d0, ai, category_id) ==
    LET s == SessionLocal(d0, ai) IN
    IF category_id \notin DOMAIN s.tx.category
    THEN Raise(404, 0, d0, s)
    ELSE LET n == NullifyProducts(s.tx, category_id)
             s1 == [s EXCEPT !.tx = [n EXCEPT !.category = Remove(@, {category_id})]]
         IN Commit(200, [name |-> d0.category[category_id].name,
                         nullified |-> {p \in DOMAIN n.product :
                                           n.product[p] # s.tx.product[p]}], d0, s1)

---------------------------------------------------------------------------
(* routers/products.py *)

\* response_models.Product: the category is the nested row the relationship
\* loads for category_id, None when category_id is NULL
ProductResponse(d, product_id) ==
    LET row == d.product[product_id] IN
    [product_id |-> product_id, name |-> row.name,
     category |-> IF row.category_id = None THEN None
                  ELSE Some([category_id |-> Val(row.category_id),
                             name |-> d.category[Val(row.category_id)].name]),
     sku |-> row.sku, price |-> row.price, reorder_level |-> row.reorder_level]

ProductsWithSku(d, sku) == {id \in DOMAIN d.product : d.product[id].sku = sku}

\* Faulty variant: the category is not looked up
create_product_unchecked(d0, ai, product) ==
    LET s == SessionLocal(d0, ai) IN
    IF Truthy(product.sku) /\ ProductsWithSku(s.tx, product.sku) # {}
    THEN Raise(400, 0, d0, s)
    ELSE LET s1 == Add(s, "product", product)
             f == Flush(s1)
         IN Commit(201, ProductResponse(f.tx, s.ai.product), d0, s1)

create_product(d0, ai, product) ==
    LET s == SessionLocal(d0, ai) IN
    IF product.category_id # None /\ Val(product.category_id) \notin DOMAIN s.tx.category
    THEN Raise(400, Val(product.category_id), d0, s)
    ELSE IF Truthy(product.sku) /\ ProductsWithSku(s.tx, product.sku) # {}
    THEN Raise(400, 0, d0, s)
    ELSE LET s1 == Add(s, "product", product)
             f == Flush(s1)
         IN Commit(201, ProductResponse(f.tx, s.ai.product), d0, s1)

get_product_by_id(d0, ai, product_id) ==
    LET s == SessionLocal(d0, ai) IN
    IF product_id \notin DOMAIN s.tx.product
    THEN Raise(404, 0, d0, s)
    ELSE Exit(200, 0, ProductResponse(s.tx, product_id), d0, s)

\* A request field that was not sent reads as its default, None
Attr(update, field) == IF field \in DOMAIN update THEN update[field] ELSE None

\* Faulty variant: model_dump() without exclude_unset, every field of the
\* request model is written, the ones not sent as None
SetAllAttrs(row, update) == [f \in DOMAIN row |-> Attr(update, f)]

\* model_dump(exclude_unset=True) and setattr: every field sent, None included
SetAttrs(row, update) ==
    [f \in DOMAIN row |-> IF f \in DOMAIN update THEN update[f] ELSE row[f]]

update_product(d0, ai, product_id, product_update) ==
    LET s == SessionLocal(d0, ai)
        category_id == Attr(product_update, "category_id")
        sku == Attr(product_update, "sku")
    IN
    IF product_id \notin DOMAIN s.tx.product
    THEN Raise(404, 0, d0, s)
    ELSE IF category_id # None /\ Val(category_id) \notin DOMAIN s.tx.category
    THEN Raise(404, Val(category_id), d0, s)
    ELSE IF Truthy(sku) /\ ProductsWithSku(s.tx, sku) \ {product_id} # {}
    THEN Raise(400, 0, d0, s)
    ELSE LET s1 == [s EXCEPT !.tx.product[product_id] = SetAttrs(@, product_update)]
         IN Commit(200, ProductResponse(s1.tx, product_id), d0, s1)

\* The relationships sale_items, stock_in_items and inventory_movements of
\* ProductDB have the default cascade and no passive_deletes: on
\* db.delete(product) the unit of work loads the children and sets their
\* product_id to NULL before the product's DELETE
NullifyDependents(d, product_id) ==
    LET Blank(t) ==
            [i \in DOMAIN t |-> IF t[i].product_id = Some(product_id)
                                THEN [t[i] EXCEPT !.product_id = None] ELSE t[i]]
    IN [d EXCEPT !.sale_item = Blank(@),
                 !.stock_in_item = Blank(@),
                 !.inventory_movement = Blank(@)]

delete_product(d0, ai, product_id) ==
    LET s == SessionLocal(d0, ai) IN
    IF product_id \notin DOMAIN s.tx.product
    THEN Raise(404, 0, d0, s)
    ELSE LET blanked == NullifyDependents(s.tx, product_id)
             s1 == [s EXCEPT !.tx = [blanked EXCEPT !.product = Remove(@, {product_id})]]
         IN Commit(200, [name |-> s.tx.product[product_id].name], d0, s1)

---------------------------------------------------------------------------
(* routers/sales.py *)

Cash == <<"C", "a", "s", "h">>
Card == <<"C", "a", "r", "d">>
QR == <<"Q", "R">>
Qr == <<"Q", "r">>

\* Column default func.current_timestamp(), as a point of the model's clock
CurrentTimestamp == 1

SaleItemsOf(d, sale_id) == {i \in DOMAIN d.sale_item : d.sale_item[i].sale_id = sale_id}

SaleItemResponse(d, sale_item_id) ==
    LET row == d.sale_item[sale_item_id] IN
    [sale_item_id |-> sale_item_id, sale_id |-> row.sale_id,
     product_id |-> row.product_id, quantity |-> row.quantity,
     unit_price |-> row.unit_price, discount |-> row.discount]

\* response_models.Sale: the header and the items the relationship loads
SaleResponse(d, sale_id) ==
    LET row == d.sale[sale_id] IN
    [sale_id |-> sale_id, sale_datetime |-> row.sale_datetime,
     total_amount |-> row.total_amount, payment_method |-> row.payment_method,
     notes |-> row.notes,
     items |-> {SaleItemResponse(d, i) : i \in SaleItemsOf(d, sale_id)}]

\* Faulty variant: capitalize() alone, without the special case of 'Qr'
CapitalizePaymentMethod(payment_method) == capitalize(payment_method)

\* lines 20-22
NormalizePaymentMethod(payment_method) ==
    IF capitalize(payment_method) = Qr THEN QR ELSE capitalize(payment_method)

\* lines 36-62: the loop over sale.items from item i on, then the commit
RECURSIVE create_sale_items(_, _, _, _, _)
create_sale_items(d0, s, sale_id, items, i) ==
    IF i > Len(items)
    THEN LET f == Flush(s) IN Commit(201, SaleResponse(f.tx, sale_id), d0, s)
    ELSE LET item == items[i] IN
         IF item.product_id \notin DOMAIN s.tx.product
         THEN Raise(404, item.product_id, d0, s)
         ELSE LET product == s.tx.product[item.product_id]
                  item_unit_price ==
                      IF item.unit_price # None THEN item.unit_price ELSE product.price
                  sale_item ==
                      [sale_id |-> sale_id, product_id |-> Some(item.product_id),
                       quantity |-> Some(item.quantity), unit_price |-> item_unit_price,
                       discount |-> Some(item.discount)]
              IN create_sale_items(d0, Add(s, "sale_item", sale_item), sale_id, items, i + 1)

\* Faulty variant: the sale is committed where the code flushes it, before
\* the items are checked
create_sale_commits_parent(d0, ai, sale) ==
    LET s == SessionLocal(d0, ai)
        payment_method == NormalizePaymentMethod(sale.payment_method)
    IN
    IF payment_method \notin {Cash, Card, QR}
    THEN Raise(400, 0, d0, s)
    ELSE LET new_sale ==
                 [sale_datetime |-> IF sale.sale_datetime = None
                                    THEN Some(CurrentTimestamp) ELSE sale.sale_datetime,
                  total_amount |-> 0, payment_method |-> Some(payment_method),
                  notes |-> sale.notes]
             s1 == Flush(Add(s, "sale", new_sale))
         IN create_sale_items(s1.tx, s1, s.ai.sale, sale.items, 1)

create_sale(d0, ai, sale) ==
    LET s == SessionLocal(d0, ai)
        payment_method == NormalizePaymentMethod(sale.payment_method)
    IN
    IF payment_method \notin {Cash, Card, QR}
    THEN Raise(400, 0, d0, s)
    ELSE LET new_sale ==
                 [sale_datetime |-> IF sale.sale_datetime = None
                                    THEN Some(CurrentTimestamp) ELSE sale.sale_datetime,
                  total_amount |-> 0, payment_method |-> Some(payment_method),
                  notes |-> sale.notes]
             s1 == Flush(Add(s, "sale", new_sale))
         IN create_sale_items(d0, s1, s.ai.sale, sale.items, 1)

get_sale_by_id(d0, ai, sale_id) ==
    LET s == SessionLocal(d0, ai) IN
    IF sale_id \notin DOMAIN s.tx.sale
    THEN Raise(404, 0, d0, s)
    ELSE Exit(200, 0, SaleResponse(s.tx, sale_id), d0, s)

\* db.delete(sale) with passive_deletes=True: the items are left to the
\* store's ON DELETE CASCADE (line 173)
\* Faulty variant: the DELETE of the sale row alone, with nothing removing
\* the items
delete_sale_alone(d0, ai, sale_id) ==
    LET s == SessionLocal(d0, ai) IN
    IF sale_id \notin DOMAIN s.tx.sale
    THEN Raise(404, 0, d0, s)
    ELSE LET s1 == [s EXCEPT !.tx.sale = Remove(@, {sale_id})]
         IN Commit(200, <<>>, d0, s1)

delete_sale(d0, ai, sale_id) ==
    LET s == SessionLocal(d0, ai) IN
    IF sale_id \notin DOMAIN s.tx.sale
    THEN Raise(404, 0, d0, s)
    ELSE LET deleted == [s.tx EXCEPT !.sale = Remove(@, {sale_id})]
             s1 == [s EXCEPT !.tx = OnDeleteCascade(deleted, "sale_item", "sale_id", sale_id)]
         IN Commit(200, <<>>, d0, s1)

\* Faulty variant: the query lacks its filter and first() returns the sale
\* with the lowest id
update_first_sale(d0, ai, sale_id, sale_update) ==
    LET s == SessionLocal(d0, ai)
        first == CHOOSE a \in DOMAIN s.tx.sale : \A b \in DOMAIN s.tx.sale : a <= b
    IN
    IF sale_id \notin DOMAIN s.tx.sale
    THEN Raise(404, 0, d0, s)
    ELSE LET s1 == [s EXCEPT !.tx.sale[first] = SetAttrs(@, sale_update)]
         IN Commit(200, SaleResponse(s1.tx, sale_id), d0, s1)

update_sale(d0, ai, sale_id, sale_update) ==
    LET s == SessionLocal(d0, ai) IN
    IF sale_id \notin DOMAIN s.tx.sale
    THEN Raise(404, 0, d0, s)
    ELSE LET s1 == [s EXCEPT !.tx.sale[sale_id] = SetAttrs(@, sale_update)]
         IN Commit(200, SaleResponse(s1.tx, sale_id), d0, s1)

\* Faulty variant: the item is stored as sent, without the default of
\* lines 223-224
add_sale_item_as_sent(d0, ai, sale_id, item) ==
    LET s == SessionLocal(d0, ai) IN
    IF sale_id \notin DOMAIN s.tx.sale
    THEN Raise(404, 0, d0, s)
    ELSE IF item.product_id \notin DOMAIN s.tx.product
    THEN Raise(404, item.product_id, d0, s)
    ELSE IF \E i \in SaleItemsOf(s.tx, sale_id) :
                s.tx.sale_item[i].product_id = Some(item.product_id)
    THEN Raise(400, item.product_id, d0, s)
    ELSE LET new_item ==
                 [sale_id |-> sale_id, product_id |-> Some(item.product_id),
                  quantity |-> Some(item.quantity), unit_price |-> item.unit_price,
                  discount |-> Some(item.discount)]
             s1 == Add(s, "sale_item", new_item)
             f == Flush(s1)
         IN Commit(201, SaleItemResponse(f.tx, s.ai.sale_item), d0, s1)

add_sale_item(d0, ai, sale_id, item) ==
    LET s == SessionLocal(d0, ai) IN
    IF sale_id \notin DOMAIN s.tx.sale
    THEN Raise(404, 0, d0, s)
    ELSE IF item.product_id \notin DOMAIN s.tx.product
    THEN Raise(404, item.product_id, d0, s)
    ELSE IF \E i \in SaleItemsOf(s.tx, sale_id) :
                s.tx.sale_item[i].product_id = Some(item.product_id)
    THEN Raise(400, item.product_id, d0, s)
    ELSE LET product == s.tx.product[item.product_id]
             new_item ==
                 [sale_id |-> sale_id, product_id |-> Some(item.product_id),
                  quantity |-> Some(item.quantity),
                  unit_price |-> IF item.unit_price = None THEN product.price
                                 ELSE item.unit_price,
                  discount |-> Some(item.discount)]
             s1 == Add(s, "sale_item", new_item)
             f == Flush(s1)
         IN Commit(201, SaleItemResponse(f.tx, s.ai.sale_item), d0, s1)

\* Faulty variant: the new product is looked up, the other items of the sale
\* are not
update_sale_item_unchecked(d0, ai, sale_id, item_id, item_update) ==
    LET s == SessionLocal(d0, ai)
        product_id == Attr(item_update, "product_id")
    IN
    IF item_id \notin SaleItemsOf(s.tx, sale_id)
    THEN Raise(404, 0, d0, s)
    ELSE IF /\ product_id # None
            /\ product_id # s.tx.sale_item[item_id].product_id
            /\ Val(product_id) \notin DOMAIN s.tx.product
    THEN Raise(404, Val(product_id), d0, s)
    ELSE LET s1 == [s EXCEPT !.tx.sale_item[item_id] = SetAttrs(@, item_update)]
         IN Commit(200, SaleItemResponse(s1.tx, item_id), d0, s1)

update_sale_item(d0, ai, sale_id, item_id, item_update) ==
    LET s == SessionLocal(d0, ai)
        product_id == Attr(item_update, "product_id")
    IN
    IF item_id \notin SaleItemsOf(s.tx, sale_id)
    THEN Raise(404, 0, d0, s)
    ELSE IF /\ product_id # None
            /\ product_id # s.tx.sale_item[item_id].product_id
            /\ Val(product_id) \notin DOMAIN s.tx.product
    THEN Raise(404, Val(product_id), d0, s)
    ELSE IF /\ product_id # None
            /\ product_id # s.tx.sale_item[item_id].product_id
            /\ \E i \in SaleItemsOf(s.tx, sale_id) \ {item_id} :
                   s.tx.sale_item[i].product_id = product_id
    THEN Raise(400, Val(product_id), d0, s)
    ELSE LET s1 == [s EXCEPT !.tx.sale_item[item_id] = SetAttrs(@, item_update)]
         IN Commit(200, SaleItemResponse(s1.tx, item_id), d0, s1)

\* Faulty variant: the handler also resets the total of the item's sale
delete_sale_item_retotal(d0, ai, sale_id, item_id) ==
    LET s == SessionLocal(d0, ai) IN
    IF item_id \notin SaleItemsOf(s.tx, sale_id)
    THEN Raise(404, 0, d0, s)
    ELSE LET s1 == [s EXCEPT !.tx.sale_item = Remove(@, {item_id}),
                             !.tx.sale[sale_id].total_amount = 0]
         IN Commit(200, <<>>, d0, s1)

delete_sale_item(d0, ai, sale_id, item_id) ==
    LET s == SessionLocal(d0, ai) IN
    IF item_id \notin SaleItemsOf(s.tx, sale_id)
    THEN Raise(404, 0, d0, s)
    ELSE LET s1 == [s EXCEPT !.tx.sale_item = Remove(@, {item_id})]
         IN Commit(200, <<>>, d0, s1)

---------------------------------------------------------------------------
(* routers/stocks.py *)

StockInItemsOf(d, stock_in_id) ==
    {i \in DOMAIN d.stock_in_item : d.stock_in_item[i].stock_in_id = stock_in_id}

StockInItemResponse(d, stock_in_item_id) ==
    LET row == d.stock_in_item[stock_in_item_id] IN
    [stock_in_item_id |-> stock_in_item_id, stock_in_id |-> row.stock_in_id,
     product_id |-> row.product_id, quantity |-> row.quantity,
     unit_cost |-> row.unit_cost]

StockInResponse(d, stock_in_id) ==
    LET row == d.stock_in[stock_in_id] IN
    [stock_in_id |-> stock_in_id, ref_no |-> row.ref_no,
     stock_in_date |-> row.stock_in_date, total_cost |-> row.total_cost,
     notes |-> row.notes,
     items |-> {StockInItemResponse(d, i) : i \in StockInItemsOf(d, stock_in_id)}]

\* lines 19-27: the validation loop from item i on; the product_id of the
\* item it raises 404 for, 0 when every product exists
RECURSIVE validate_products(_, _, _)
validate_products(d, items, i) ==
    IF i > Len(items) THEN 0
    ELSE IF items[i].product_id \notin DOMAIN d.product THEN items[i].product_id
    ELSE validate_products(d, items, i + 1)

\* lines 38-45
RECURSIVE add_stock_in_items(_, _, _, _)
add_stock_in_items(s, stock_in_id, items, i) ==
    IF i > Len(items) THEN s
    ELSE add_stock_in_items(
             Add(s, "stock_in_item",
                 [stock_in_id |-> stock_in_id, product_id |-> Some(items[i].product_id),
                  quantity |-> Some(items[i].quantity),
                  unit_cost |-> Some(items[i].unit_cost)]),
             stock_in_id, items, i + 1)

\* Faulty variant: the products are checked in the insert loop, after the parent
\* was flushed, as create_sale does
RECURSIVE add_checked_stock_in_items(_, _, _, _, _)
add_checked_stock_in_items(d0, s, stock_in_id, items, i) ==
    IF i > Len(items)
    THEN LET f == Flush(s) IN Commit(201, StockInResponse(f.tx, stock_in_id), d0, s)
    ELSE IF items[i].product_id \notin DOMAIN s.tx.product
    THEN Raise(404, items[i].product_id, d0, s)
    ELSE add_checked_stock_in_items(
             d0, Add(s, "stock_in_item",
                     [stock_in_id |-> stock_in_id,
                      product_id |-> Some(items[i].product_id),
                      quantity |-> Some(items[i].quantity),
                      unit_cost |-> Some(items[i].unit_cost)]),
             stock_in_id, items, i + 1)

create_stock_in_checks_late(d0, ai, stock_in) ==
    LET s == SessionLocal(d0, ai)
        new_stock_in ==
            [ref_no |-> stock_in.ref_no,
             stock_in_date |-> IF stock_in.stock_in_date = None
                               THEN Some(CurrentTimestamp) ELSE stock_in.stock_in_date,
             total_cost |-> 0, notes |-> stock_in.notes]
        s1 == Flush(Add(s, "stock_in", new_stock_in))
    IN add_checked_stock_in_items(d0, s1, s.ai.stock_in, stock_in.items, 1)

create_stock_in(d0, ai, stock_in) ==
    LET s == SessionLocal(d0, ai)
        missing == validate_products(s.tx, stock_in.items, 1)
    IN
    IF missing # 0
    THEN Raise(404, missing, d0, s)
    ELSE LET new_stock_in ==
                 [ref_no |-> stock_in.ref_no,
                  stock_in_date |-> IF stock_in.stock_in_date = None
                                    THEN Some(CurrentTimestamp) ELSE stock_in.stock_in_date,
                  total_cost |-> 0, notes |-> stock_in.notes]
             s1 == Flush(Add(s, "stock_in", new_stock_in))
             s2 == add_stock_in_items(s1, s.ai.stock_in, stock_in.items, 1)
             f == Flush(s2)
         IN Commit(201, StockInResponse(f.tx, s.ai.stock_in), d0, s2)

get_stock_in_by_id(d0, ai, stock_in_id) ==
    LET s == SessionLocal(d0, ai) IN
    IF stock_in_id \notin DOMAIN s.tx.stock_in
    THEN Raise(404, 0, d0, s)
    ELSE Exit(200, 0, StockInResponse(s.tx, stock_in_id), d0, s)

update_stock_in(d0, ai, stock_in_id, stock_in_update) ==
    LET s == SessionLocal(d0, ai) IN
    IF stock_in_id \notin DOMAIN s.tx.stock_in
    THEN Raise(404, 0, d0, s)
    ELSE LET s1 == [s EXCEPT !.tx.stock_in[stock_in_id] = SetAttrs(@, stock_in_update)]
         IN Commit(200, StockInResponse(s1.tx, stock_in_id), d0, s1)

\* db.delete(stock_in) with passive_deletes=True: the items are left to the
\* store's ON DELETE CASCADE (line 161)
delete_stock_in(d0, ai, stock_in_id) ==
    LET s == SessionLocal(d0, ai) IN
    IF stock_in_id \notin DOMAIN s.tx.stock_in
    THEN Raise(404, 0, d0, s)
    ELSE LET deleted == [s.tx EXCEPT !.stock_in = Remove(@, {stock_in_id})]
             s1 == [s EXCEPT !.tx = OnDeleteCascade(deleted, "stock_in_item",
                                                    "stock_in_id", stock_in_id)]
         IN Commit(200, <<>>, d0, s1)

add_stock_in_item(d0, ai, stock_in_id, item) ==
    LET s == SessionLocal(d0, ai) IN
    IF stock_in_id \notin DOMAIN s.tx.stock_in
    THEN Raise(404, 0, d0, s)
    ELSE IF item.product_id \notin DOMAIN s.tx.product
    THEN Raise(404, item.product_id, d0, s)
    ELSE IF \E i \in StockInItemsOf(s.tx, stock_in_id) :
                s.tx.stock_in_item[i].product_id = Some(item.product_id)
    THEN Raise(400, item.product_id, d0, s)
    ELSE LET new_item ==
                 [stock_in_id |-> stock_in_id, product_id |-> Some(item.product_id),
                  quantity |-> Some(item.quantity), unit_cost |-> Some(item.unit_cost)]
             s1 == Add(s, "stock_in_item", new_item)
             f == Flush(s1)
         IN Commit(201, StockInItemResponse(f.tx, s.ai.stock_in_item), d0, s1)

update_stock_in_item(d0, ai, stock_in_id, item_id, item_update) ==
    LET s == SessionLocal(d0, ai)
        product_id == Attr(item_update, "product_id")
    IN
    IF item_id \notin StockInItemsOf(s.tx, stock_in_id)
    THEN Raise(404, 0, d0, s)
    ELSE IF /\ product_id # None
            /\ product_id # s.tx.stock_in_item[item_id].product_id
            /\ Val(product_id) \notin DOMAIN s.tx.product
    THEN Raise(404, Val(product_id), d0, s)
    ELSE IF /\ product_id # None
            /\ product_id # s.tx.stock_in_item[item_id].product_id
            /\ \E i \in StockInItemsOf(s.tx, stock_in_id) \ {item_id} :
                   s.tx.stock_in_item[i].product_id = product_id
    THEN Raise(400, Val(product_id), d0, s)
    ELSE LET s1 == [s EXCEPT !.tx.stock_in_item[item_id] = SetAttrs(@, item_update)]
         IN Commit(200, StockInItemResponse(s1.tx, item_id), d0, s1)

delete_stock_in_item(d0, ai, stock_in_id, item_id) ==
    LET s == SessionLocal(d0, ai) IN
    IF item_id \notin StockInItemsOf(s.tx, stock_in_id)
    THEN Raise(404, 0, d0, s)
    ELSE LET s1 == [s EXCEPT !.tx.stock_in_item = Remove(@, {item_id})]
         IN Commit(200, <<>>, d0, s1)

---------------------------------------------------------------------------
(* Paginated lists: routers/categories.py, products.py, report.py *)

\* request_models.PaginationParams: page >= 1, 1 <= limit <= 100
LimitMax == 100

PaginationParamsOK(page, limit) == page >= 1 /\ limit >= 1 /\ limit <= LimitMax

\* The orders ORDER BY may return the rows S in: every arrangement that is
\* ascending in key[row]; rows with equal keys come in any order
RECURSIVE Orderings(_, _)
Orderings(S, key) ==
    IF S = {} THEN {<<>>}
    ELSE UNION {{<<x>> \o o : o \in Orderings(S \ {x}, key)} :
                   x \in {y \in S : \A z \in S : key[y] <= key[z]}}

\* .offset(offset).limit(limit)
OffsetLimit(ordered, offset, limit) ==
    SubSeq(ordered, offset + 1,
           IF offset + limit < Len(ordered) THEN offset + limit ELSE Len(ordered))

\* Faulty variant: the page count rounded down
total_pages_floor(total, limit) == total \div limit

total_pages(total, limit) == (total + limit - 1) \div limit

PaginatedResponse(items, total, page, limit) ==
    [items |-> items, total |-> total, page |-> page, limit |-> limit,
     total_pages |-> total_pages(total, limit),
     has_next |-> page < total_pages(total, limit),
     has_prev |-> page > 1]

\* ORDER BY the primary key
IdKey(t) == [id \in DOMAIN t |-> id]

FilterCategories(d, params) ==
    {id \in DOMAIN d.category :
        Truthy(params.search) => ilike(d.category[id].name, Val(params.search))}

\* ordered: the filtered rows in the order the query returned them
get_all_categories(d0, ai, params, ordered) ==
    LET s == SessionLocal(d0, ai)
        total == Cardinality(FilterCategories(s.tx, params))
        categories == OffsetLimit(ordered, (params.page - 1) * params.limit, params.limit)
    IN
    IF categories = <<>> /\ params.page = 1
    THEN Raise(404, 0, d0, s)
    ELSE Exit(200, 0, PaginatedResponse(categories, total, params.page, params.limit),
              d0, s)

FilterProducts(d, params) ==
    {id \in DOMAIN d.product :
        /\ Truthy(params.search) =>
              \/ ilike(Val(d.product[id].name), Val(params.search))
              \/ /\ d.product[id].sku # None
                 /\ ilike(Val(d.product[id].sku), Val(params.search))
        /\ (params.category_id # None /\ Val(params.category_id) # 0) =>
              d.product[id].category_id = params.category_id}

get_all_products(d0, ai, params, ordered) ==
    LET s == SessionLocal(d0, ai)
        total == Cardinality(FilterProducts(s.tx, params))
        products == OffsetLimit(ordered, (params.page - 1) * params.limit, params.limit)
    IN
    IF products = <<>> /\ params.page = 1
    THEN Raise(404, 0, d0, s)
    ELSE Exit(200, 0, PaginatedResponse(products, total, params.page, params.limit),
              d0, s)

FilterProductStock(d, params) ==
    {id \in DOMAIN d.v_product_stock :
        /\ params.productFilter = Some(<<"r">>) => d.v_product_stock[id].needs_restock = 1
        /\ params.productFilter = Some(<<"n", "r">>) =>
              d.v_product_stock[id].needs_restock = 0
        /\ Truthy(params.search) =>
              ilike(d.v_product_stock[id].name, Val(params.search))}

get_product_stock_report(d0, ai, params, ordered) ==
    LET s == SessionLocal(d0, ai)
        total == Cardinality(FilterProductStock(s.tx, params))
        stock_data == OffsetLimit(ordered, (params.page - 1) * params.limit, params.limit)
    IN
    IF total = 0
    THEN Raise(404, 0, d0, s)
    ELSE Exit(200, 0, PaginatedResponse(stock_data, total, params.page, params.limit),
              d0, s)

---------------------------------------------------------------------------
(* Requests: the last request and its response *)

Response(op, req, out) ==
    [op |-> op, req |-> req, status |-> out.status, detail |-> out.detail,
     body |-> out.body, added |-> out.added]

\* A request that runs alone, from get_db to the close of its session
Handle(op, req, out) ==
    /\ db' = out.db
    /\ autoinc' = out.ai
    /\ resp' = Response(op, req, out)
    /\ UNCHANGED sessions

\* No request is in flight
NoSessions == <<>>

NoResponse ==
    [op |-> "none", req |-> <<>>, status |-> 0, detail |-> 0, body |-> <<>>,
     added |-> 0]

Restrict(r, F) == [f \in F |-> r[f]]

Optional(S) == {None} \cup {Some(v) : v \in S}

\* Sequences over S of length 0..n
SeqUpTo(S, n) == UNION {[1..k -> S] : k \in 0..n}

(* Categories *)

CategoryIds == 1..(MaxCategoryId + 2)

CreateCategory(max) ==
    /\ autoinc.category <= max
    /\ \E name \in CategoryNames :
        LET req == [name |-> name]
        IN Handle("create_category", req, create_category(db, autoinc, req))

GetCategoryById ==
    \E id \in CategoryIds :
        LET req == [category_id |-> id]
        IN Handle("get_category_by_id", req, get_category_by_id(db, autoinc, id))

UpdateCategory ==
    \E id \in CategoryIds, name \in CategoryNames :
        \E existing \in FirstOf(CategoriesNamed(db, name)) :
            LET req == [category_id |-> id, name |-> name]
            IN Handle("update_category", req,
                      update_category(db, autoinc, id, [name |-> name], existing))

DeleteCategory ==
    \E id \in CategoryIds :
        LET req == [category_id |-> id]
        IN Handle("delete_category", req, delete_category(db, autoinc, id))

(* Products *)

ProductIds == 1..(MaxProductId + 2)

ProductCategoryIds == 1..(MaxCategoryId + 1)

ProductCreates ==
    [name : {Some(Cup)}, category_id : Optional(ProductCategoryIds),
     sku : Optional({EmptyStr, S1}), price : {Some(5)}, reorder_level : {Some(10)}]

ProductUpdates ==
    {Restrict(u, F) :
        u \in [category_id : Optional(ProductCategoryIds), sku : Optional({EmptyStr, S1})],
        F \in SUBSET {"category_id", "sku"}}

CreateProduct(max) ==
    /\ autoinc.product <= max
    /\ \E product \in ProductCreates :
        Handle("create_product", product, create_product(db, autoinc, product))

GetProductById ==
    \E id \in ProductIds :
        LET req == [product_id |-> id]
        IN Handle("get_product_by_id", req, get_product_by_id(db, autoinc, id))

UpdateProduct ==
    \E id \in ProductIds, update \in ProductUpdates :
        LET req == [product_id |-> id, update |-> update]
        IN Handle("update_product", req, update_product(db, autoinc, id, update))

(* Sales *)

\* The store after two products were created
Seed1 ==
    create_product(EmptyDb, InitAutoinc,
                   [name |-> Some(Cup), category_id |-> None, sku |-> None,
                    price |-> Some(5), reorder_level |-> Some(10)])

Seed2 ==
    create_product(Seed1.db, Seed1.ai,
                   [name |-> Some(Milk), category_id |-> None, sku |-> Some(S1),
                    price |-> Some(8), reorder_level |-> Some(10)])

\* Product ids in item requests: the seeded products and one id never created
ItemProductIds == DOMAIN Seed2.db.product \cup {Seed2.ai.product}

SaleIds == 1..(MaxSaleId + 1)

SaleItemIds == 1..(MaxSaleItemId + 1)

\* Item requests with unit_price left out or drawn from prices
SaleItemCreates(prices) ==
    [product_id : ItemProductIds, quantity : {1}, unit_price : Optional(prices),
     discount : {0}]

SaleCreates(payment_methods, prices) ==
    [sale_datetime : {None}, payment_method : payment_methods,
     notes : {None}, items : SeqUpTo(SaleItemCreates(prices), MaxItems)]

SaleItemUpdates(fields) ==
    {Restrict(u, F) :
        u \in [product_id : Optional(ItemProductIds), quantity : {Some(2)}],
        F \in SUBSET fields}

PaymentMethods == {<<"c", "a", "s", "h">>, <<"q", "r">>, <<"x">>}

CreateSale(sales, max) ==
    \E sale \in sales :
        /\ autoinc.sale <= max
        /\ autoinc.sale_item + Len(sale.items) - 1 <= MaxSaleItemId
        /\ Handle("create_sale", sale, create_sale(db, autoinc, sale))

GetSaleById ==
    \E id \in SaleIds :
        LET req == [sale_id |-> id]
        IN Handle("get_sale_by_id", req, get_sale_by_id(db, autoinc, id))

DeleteSale ==
    \E id \in SaleIds :
        LET req == [sale_id |-> id]
        IN Handle("delete_sale", req, delete_sale(db, autoinc, id))

AddSaleItem(items) ==
    /\ autoinc.sale_item <= MaxSaleItemId
    /\ \E id \in SaleIds, item \in items :
        LET req == [sale_id |-> id, item |-> item]
        IN Handle("add_sale_item", req, add_sale_item(db, autoinc, id, item))

UpdateSaleItem(updates) ==
    \E id \in SaleIds, item_id \in SaleItemIds, update \in updates :
        LET req == [sale_id |-> id, item_id |-> item_id, update |-> update]
        IN Handle("update_sale_item", req,
                  update_sale_item(db, autoinc, id, item_id, update))

DeleteSaleItem ==
    \E id \in SaleIds, item_id \in SaleItemIds :
        LET req == [sale_id |-> id, item_id |-> item_id]
        IN Handle("delete_sale_item", req, delete_sale_item(db, autoinc, id, item_id))

(* Stock-in *)

StockInIds == 1..(MaxStockInId + 1)

StockInItemIds == 1..(MaxStockInItemId + 1)

StockInItemCreates == [product_id : ItemProductIds, quantity : {1}, unit_cost : {3}]

StockInCreates ==
    [stock_in_date : {None}, ref_no : {None}, notes : {None},
     items : SeqUpTo(StockInItemCreates, MaxItems)]

StockInItemUpdates ==
    {Restrict(u, F) :
        u \in [product_id : Optional(ItemProductIds)], F \in SUBSET {"product_id"}}

CreateStockIn ==
    \E stock_in \in StockInCreates :
        /\ autoinc.stock_in <= MaxStockInId
        /\ autoinc.stock_in_item + Len(stock_in.items) - 1 <= MaxStockInItemId
        /\ Handle("create_stock_in", stock_in, create_stock_in(db, autoinc, stock_in))

GetStockInById ==
    \E id \in StockInIds :
        LET req == [stock_in_id |-> id]
        IN Handle("get_stock_in_by_id", req, get_stock_in_by_id(db, autoinc, id))

DeleteStockIn ==
    \E id \in StockInIds :
        LET req == [stock_in_id |-> id]
        IN Handle("delete_stock_in", req, delete_stock_in(db, autoinc, id))

AddStockInItem ==
    /\ autoinc.stock_in_item <= MaxStockInItemId
    /\ \E id \in StockInIds, item \in StockInItemCreates :
        LET req == [stock_in_id |-> id, item |-> item]
        IN Handle("add_stock_in_item", req, add_stock_in_item(db, autoinc, id, item))

UpdateStockInItem ==
    \E id \in StockInIds, item_id \in StockInItemIds, update \in StockInItemUpdates :
        LET req == [stock_in_id |-> id, item_id |-> item_id, update |-> update]
        IN Handle("update_stock_in_item", req,
                  update_stock_in_item(db, autoinc, id, item_id, update))

DeleteStockInItem ==
    \E id \in StockInIds, item_id \in StockInItemIds :
        LET req == [stock_in_id |-> id, item_id |-> item_id]
        IN Handle("delete_stock_in_item", req,
                  delete_stock_in_item(db, autoinc, id, item_id))

(* Paginated lists *)

Pages == 0..MaxPage

Limits == 0..MaxLimit

\* Invalid paging parameters are refused (422) before the handler runs
Refused(d, ai) == Raise(422, 0, d, SessionLocal(d, ai))

SearchTerms == {None, Some(EmptyStr), Some(<<"e", "A">>)}

CategorySearchParams == [page : Pages, limit : Limits, search : SearchTerms]

ProductSearchParams ==
    [page : Pages, limit : Limits, search : {None, Some(<<"s">>)},
     category_id : {None, Some(1)}]

ProductStockSearchParams ==
    [page : Pages, limit : Limits, search : {None, Some(<<"U">>)},
     productFilter : {None, Some(<<"r">>), Some(<<"n", "r">>)}]

\* A list request only reads: one request per store shows every response
GetAllCategories ==
    /\ resp = NoResponse
    /\ \E params \in CategorySearchParams :
        IF PaginationParamsOK(params.page, params.limit)
        THEN \E ordered \in Orderings(FilterCategories(db, params), IdKey(db.category)) :
                Handle("get_all_categories", params,
                       get_all_categories(db, autoinc, params, ordered))
        ELSE Handle("get_all_categories", params, Refused(db, autoinc))

GetAllProducts ==
    /\ resp = NoResponse
    /\ \E params \in ProductSearchParams :
        IF PaginationParamsOK(params.page, params.limit)
        THEN \E ordered \in Orderings(FilterProducts(db, params), IdKey(db.product)) :
                Handle("get_all_products", params,
                       get_all_products(db, autoinc, params, ordered))
        ELSE Handle("get_all_products", params, Refused(db, autoinc))

\* ORDER BY name
NameKey(t) == [id \in DOMAIN t |-> StrKey(t[id].name)]

GetProductStockReport ==
    /\ resp = NoResponse
    /\ \E params \in ProductStockSearchParams :
        IF PaginationParamsOK(params.page, params.limit)
        THEN \E ordered \in Orderings(FilterProductStock(db, params), NameKey(db.v_product_stock)) :
                Handle("get_product_stock_report", params,
                       get_product_stock_report(db, autoinc, params, ordered))
        ELSE Handle("get_product_stock_report", params, Refused(db, autoinc))

---------------------------------------------------------------------------
(* Specifications *)

Init ==
    /\ db = EmptyDb
    /\ autoinc = InitAutoinc
    /\ resp = NoResponse
    /\ sessions = NoSessions

\* The catalogue: categories and the products that reference them
Next ==
    \/ CreateCategory(MaxCategoryId)
    \/ DeleteCategory
    \/ CreateProduct(MaxProductId)
    \/ GetProductById
    \/ UpdateProduct

Spec == Init /\ [][Next]_vars

NextCategories ==
    \/ CreateCategory(MaxCategoryId + 1)
    \/ GetCategoryById
    \/ UpdateCategory
    \/ DeleteCategory

SpecCategories == Init /\ [][NextCategories]_vars

NextProducts ==
    \/ CreateProduct(MaxProductId + 1)
    \/ UpdateProduct

SpecProducts == Init /\ [][NextProducts]_vars

InitSeeded ==
    /\ db = Seed2.db
    /\ autoinc = Seed2.ai
    /\ resp = NoResponse
    /\ sessions = NoSessions

NextCreateSale ==
    \/ CreateSale(SaleCreates(PaymentMethods, {}), MaxSaleId)
    \/ GetSaleById
    \/ DeleteSale

SpecCreateSale == InitSeeded /\ [][NextCreateSale]_vars

NextSales ==
    \/ CreateSale(SaleCreates({Cash}, {}), MaxSaleId)
    \/ DeleteSale
    \/ AddSaleItem(SaleItemCreates({7}))
    \/ UpdateSaleItem(SaleItemUpdates({"product_id"}))
    \/ DeleteSaleItem

SpecSales == InitSeeded /\ [][NextSales]_vars

NextCreateStockIn ==
    \/ CreateStockIn
    \/ GetStockInById
    \/ DeleteStockIn

SpecCreateStockIn == InitSeeded /\ [][NextCreateStockIn]_vars

NextStock ==
    \/ CreateStockIn
    \/ DeleteStockIn
    \/ AddStockInItem
    \/ UpdateStockInItem
    \/ DeleteStockInItem

SpecStock == InitSeeded /\ [][NextStock]_vars

\* Stores to list: n categories with distinct names, or n products with
\* their rows of the stock view
ListCategoryTables ==
    UNION {{t \in [1..n -> [name : {Tea, tea, Milk}]] :
               \A a, b \in 1..n : a # b => t[a].name # t[b].name} : n \in 0..MaxListRows}

ListProductRows ==
    [name : {Some(Cup), Some(Milk)}, category_id : {None}, sku : {None},
     price : {Some(5)}, reorder_level : {Some(10)}]

ListProductTables ==
    UNION {{t \in [1..n -> ListProductRows] : UniqueOK(t, ProductSku)} :
              n \in 0..MaxListRows}

\* v_product_stock: one row per product; needs_restock is 1 when the stock
\* on hand is at or below the reorder level
StockViewRow(product, stock_on_hand) ==
    [name |-> Val(product.name), price |-> Val(product.price),
     reorder_level |-> Val(product.reorder_level), stock_on_hand |-> stock_on_hand,
     needs_restock |-> IF stock_on_hand <= Val(product.reorder_level) THEN 1 ELSE 0]

ListDbs ==
    {[EmptyDb EXCEPT !.category = t] : t \in ListCategoryTables}
    \cup
    {[EmptyDb EXCEPT !.product = t,
                     !.v_product_stock =
                         [id \in DOMAIN t |-> StockViewRow(t[id], stock[id])]] :
        t \in ListProductTables, stock \in [1..MaxListRows -> {0, 20}]}

InitList ==
    /\ db \in ListDbs
    /\ autoinc = [InitAutoinc EXCEPT !.category = Cardinality(DOMAIN db.category) + 1,
                                     !.product = Cardinality(DOMAIN db.product) + 1]
    /\ resp = NoResponse
    /\ sessions = NoSessions

NextList ==
    \/ GetAllCategories
    \/ GetAllProducts
    \/ GetProductStockReport

SpecList == InitList /\ [][NextList]_vars

---------------------------------------------------------------------------
(* Properties *)

ClientError == {400, 404}

\* Two items of the list name the same product
RepeatsProduct(items) ==
    \E i, j \in DOMAIN items : i # j /\ items[i].product_id = items[j].product_id

\* Some item of the list names a product the store d does not hold
NamesMissingProduct(d, items) ==
    \E i \in DOMAIN items : items[i].product_id \notin DOMAIN d.product

\* The product_id of the first item, in list order, whose product d lacks
FirstMissingProduct(d, items) ==
    LET i == CHOOSE k \in DOMAIN items :
                 /\ items[k].product_id \notin DOMAIN d.product
                 /\ \A j \in 1..(k - 1) : items[j].product_id \in DOMAIN d.product
    IN items[i].product_id

\* C1: create_sale with two items that carry the same product_id fails (and
\* so persists neither the sale nor any item).
C1_DuplicateItemsFail ==
    (resp.op = "create_sale" /\ RepeatsProduct(resp.req.items))
        => resp.status \in ClientError

\* C2: a create_sale request with an item whose product does not exist ends
\* in a client error, which is 404 naming the first such product whenever the
\* payment method was accepted, and leaves every table as it was, wherever
\* the failing item stands in the list.
C2_CreateSaleAtomic ==
    [][(resp'.op = "create_sale" /\ NamesMissingProduct(db, resp'.req.items))
        => /\ resp'.status \in ClientError
           /\ NormalizePaymentMethod(resp'.req.payment_method) \in {Cash, Card, QR}
                 => /\ resp'.status = 404
                    /\ resp'.detail = FirstMissingProduct(db, resp'.req.items)
           /\ db' = db]_vars

\* A create_sale that failed on its second item, after the sale row was
\* flushed and the first item was added to the session
C2_Witness ==
    /\ resp.op = "create_sale"
    /\ resp.status = 404
    /\ Len(resp.req.items) = 2
    /\ resp.req.items[1].product_id \in DOMAIN db.product
    /\ resp.added = 2

\* C3: no sale has two sale items with the same product_id.
C3_NoDuplicateSaleItems ==
    \A i, j \in DOMAIN db.sale_item :
        (i # j /\ db.sale_item[i].sale_id = db.sale_item[j].sale_id)
            => db.sale_item[i].product_id # db.sale_item[j].product_id

\* C4: no stock-in has two items with the same product_id.
C4_NoDuplicateStockInItems ==
    \A i, j \in DOMAIN db.stock_in_item :
        (i # j /\ db.stock_in_item[i].stock_in_id = db.stock_in_item[j].stock_in_id)
            => db.stock_in_item[i].product_id # db.stock_in_item[j].product_id

\* C5: a create_stock_in request with an item whose product does not exist
\* fails with 404 naming the first such product in list order, before
\* anything was added to the session or inserted, and leaves every table and
\* every AUTO_INCREMENT counter as it was.
C5_StockInPrevalidated ==
    [][(resp'.op = "create_stock_in" /\ NamesMissingProduct(db, resp'.req.items))
        => /\ resp'.status = 404
           /\ resp'.detail = FirstMissingProduct(db, resp'.req.items)
           /\ resp'.added = 0
           /\ db' = db
           /\ autoinc' = autoinc]_vars

\* A create_stock_in refused for its second item, the first being valid
C5_Witness ==
    /\ resp.op = "create_stock_in"
    /\ resp.status = 404
    /\ Len(resp.req.items) = 2
    /\ resp.req.items[1].product_id \in DOMAIN db.product
    /\ resp.detail = resp.req.items[2].product_id

ListOps == {"get_all_categories", "get_all_products", "get_product_stock_report"}

\* n is total / limit rounded up
IsCeiling(n, total, limit) == n * limit >= total /\ (n - 1) * limit < total

\* C6: every paginated list response has total >= 0, page >= 1 and
\* 1 <= limit <= 100, total_pages = ceil(total / limit),
\* has_next = (page < total_pages), has_prev = (page > 1) and at most limit
\* items.
C6_PaginationEnvelope ==
    (resp.op \in ListOps /\ resp.status = 200)
        => /\ resp.body.total >= 0
           /\ resp.body.page >= 1
           /\ resp.body.limit >= 1 /\ resp.body.limit <= LimitMax
           /\ IsCeiling(resp.body.total_pages, resp.body.total, resp.body.limit)
           /\ resp.body.has_next = (resp.body.page < resp.body.total_pages)
           /\ resp.body.has_prev = (resp.body.page > 1)
           /\ Len(resp.body.items) <= resp.body.limit

\* A stock report page that is followed by a last, partly filled page
C6_Witness ==
    /\ resp.op = "get_product_stock_report"
    /\ resp.status = 200
    /\ resp.body.total % resp.body.limit # 0
    /\ resp.body.has_next
    /\ Len(resp.body.items) = resp.body.limit

UniqueCategoryNames ==
    \A a, b \in DOMAIN db.category : a # b => db.category[a].name # db.category[b].name

\* C7: no two categories have the same name; a create_category whose name an
\* existing category has, and an update_category of an existing category to
\* the name of a different category, fail with 400 and leave the categories
\* unchanged; an update of a category to its own current name succeeds.
C7_CategoryNamesUnique ==
    [][/\ UniqueCategoryNames'
       /\ (resp'.op = "create_category" /\ CategoriesNamed(db, resp'.req.name) # {})
             => resp'.status = 400 /\ db' = db
       /\ (/\ resp'.op = "update_category"
           /\ resp'.req.category_id \in DOMAIN db.category
           /\ CategoriesNamed(db, resp'.req.name) \ {resp'.req.category_id} # {})
             => resp'.status = 400 /\ db' = db
       /\ (/\ resp'.op = "update_category"
           /\ resp'.req.category_id \in DOMAIN db.category
           /\ db.category[resp'.req.category_id].name = resp'.req.name)
             => resp'.status = 200 /\ db'.category = db.category]_vars

\* An update refused because another category has the name
C7_Witness ==
    /\ resp.op = "update_category"
    /\ resp.status = 400
    /\ resp.req.category_id \in DOMAIN db.category
    /\ CategoriesNamed(db, resp.req.name) \ {resp.req.category_id} # {}

\* C8: create_product with a category_id that no category has fails with 400
\* naming that id and persists no product; with the category_id of an
\* existing category (and an sku no product holds) it succeeds, and a get of
\* the new product returns that category as its nested category.
C8_ProductCategoryChecked ==
    [][resp'.op = "create_product" /\ resp'.req.category_id # None
        => LET category_id == Val(resp'.req.category_id) IN
           /\ category_id \notin DOMAIN db.category
                 => /\ resp'.status = 400
                    /\ resp'.detail = category_id
                    /\ db' = db
           /\ (/\ category_id \in DOMAIN db.category
               /\ resp'.req.sku # None => ProductsWithSku(db, resp'.req.sku) = {})
                 => /\ resp'.status = 201
                    /\ DOMAIN db'.product = DOMAIN db.product \cup {resp'.body.product_id}
                    /\ LET got == get_product_by_id(db', autoinc', resp'.body.product_id)
                       IN /\ got.status = 200
                          /\ got.body.category =
                                 Some([category_id |-> category_id,
                                       name |-> db.category[category_id].name])]_vars

\* A product created in an existing category
C8_Witness ==
    /\ resp.op = "create_product"
    /\ resp.status = 201
    /\ resp.req.category_id # None
    /\ resp.body.category # None

ProductCategoriesExist ==
    \A p \in DOMAIN db.product :
        db.product[p].category_id # None
            => Val(db.product[p].category_id) \in DOMAIN db.category

\* C9: every product whose category_id is not NULL references a category that
\* exists; delete_category of an existing category succeeds, removes it and
\* leaves no product with the deleted id (their category_id becomes NULL).
C9_ProductCategoryExists ==
    [][/\ ProductCategoriesExist'
       /\ (resp'.op = "delete_category" /\ resp'.req.category_id \in DOMAIN db.category)
             => /\ resp'.status = 200
                /\ resp'.req.category_id \notin DOMAIN db'.category
                /\ \A p \in DOMAIN db.product :
                      /\ p \in DOMAIN db'.product
                      /\ db'.product[p].category_id =
                            IF db.product[p].category_id = Some(resp'.req.category_id)
                            THEN None ELSE db.product[p].category_id]_vars

\* A category was deleted while a product referenced it
C9_Witness ==
    /\ resp.op = "delete_category"
    /\ resp.status = 200
    /\ resp.body.nullified # {}

\* C10: a create_product or update_product whose sku (the empty string
\* included) a different product already holds fails with 400.
C10_DuplicateSkuIs400 ==
    /\ (/\ resp.op = "create_product"
        /\ resp.status # 201
        /\ resp.req.sku # None
        /\ ProductsWithSku(db, resp.req.sku) # {})
          => resp.status = 400
    /\ (/\ resp.op = "update_product"
        /\ resp.status # 200
        /\ resp.req.product_id \in DOMAIN db.product
        /\ Attr(resp.req.update, "sku") # None
        /\ ProductsWithSku(db, Attr(resp.req.update, "sku")) \ {resp.req.product_id} # {})
          => resp.status = 400

---------------------------------------------------------------------------
(* Product fields: prices and partial updates *)

\* ProductUpdate: name min_length=1 max_length=150, sku max_length=64,
\* price gt=0; None passes every Optional field
ProductUpdateOK(update) ==
    /\ Attr(update, "name") # None
          => Len(Val(Attr(update, "name"))) >= 1 /\ Len(Val(Attr(update, "name"))) <= 150
    /\ Attr(update, "sku") # None => Len(Val(Attr(update, "sku"))) <= 64
    /\ Attr(update, "price") # None => Val(Attr(update, "price")) > 0

\* ProductCreate declares price: float with no constraint
PricedProductCreates ==
    [name : {Some(Cup)}, category_id : {None}, sku : Optional({S1}),
     price : {Some(0), Some(5)}, reorder_level : {Some(10)}]

ProductFieldSets == {{}, {"sku"}, {"price"}, {"name", "price", "reorder_level"}}

ProductFieldUpdates ==
    {Restrict(u, F) :
        u \in [name : {Some(Milk)}, sku : Optional({S1}),
               price : {None, Some(0), Some(7)}, reorder_level : {Some(3)}],
        F \in ProductFieldSets}

CreatePricedProduct ==
    /\ autoinc.product <= MaxProductId + 1
    /\ \E product \in PricedProductCreates :
        Handle("create_product", product, create_product(db, autoinc, product))

UpdateProductFields ==
    \E id \in ProductIds, update \in ProductFieldUpdates :
        LET req == [product_id |-> id, update |-> update]
        IN IF ProductUpdateOK(update)
           THEN Handle("update_product", req, update_product(db, autoinc, id, update))
           ELSE Handle("update_product", req, Refused(db, autoinc))

NextProductFields ==
    \/ CreatePricedProduct
    \/ UpdateProductFields

SpecProductFields == Init /\ [][NextProductFields]_vars

\* C11: every persisted product has price > 0 after any sequence of
\* create_product and update_product calls.
C11_PricesPositive ==
    \A p \in DOMAIN db.product :
        db.product[p].price # None /\ Val(db.product[p].price) > 0

\* C12: update_product leaves every other product and every other table as
\* they were, keeps each field of the targeted product that the request does
\* not carry, and, when it succeeds, gives each field the request carries the
\* value sent.
C12_UpdateProductFrame ==
    [][resp'.op = "update_product"
        => LET id == resp'.req.product_id
               update == resp'.req.update
           IN /\ DOMAIN db'.product = DOMAIN db.product
              /\ \A p \in DOMAIN db.product \ {id} : db'.product[p] = db.product[p]
              /\ \A t \in DOMAIN db \ {"product"} : db'[t] = db[t]
              /\ id \in DOMAIN db.product
                    => /\ \A f \in DOMAIN db.product[id] \ DOMAIN update :
                             db'.product[id][f] = db.product[id][f]
                       /\ resp'.status = 200
                             => \A f \in DOMAIN update : db'.product[id][f] = update[f]
                       /\ resp'.status # 200 => db'.product[id] = db.product[id]]_vars

\* A successful update of the price alone of a product that has an sku, with
\* another product in the store
C12_Witness ==
    /\ resp.op = "update_product"
    /\ resp.status = 200
    /\ DOMAIN resp.req.update = {"price"}
    /\ db.product[resp.req.product_id].sku # None
    /\ db.product[resp.req.product_id].price = resp.req.update.price
    /\ DOMAIN db.product \ {resp.req.product_id} # {}

---------------------------------------------------------------------------
(* Parents and their items *)

\* Requests whose items all name the first seeded product
OneProductSaleCreates ==
    {sale \in SaleCreates({Cash}, {}) :
        \A i \in DOMAIN sale.items : sale.items[i].product_id \in DOMAIN Seed1.db.product}

OneProductStockInCreates ==
    {stock_in \in StockInCreates :
        \A i \in DOMAIN stock_in.items :
            stock_in.items[i].product_id \in DOMAIN Seed1.db.product}

CreateStockInOf(stock_ins, max) ==
    \E stock_in \in stock_ins :
        /\ autoinc.stock_in <= max
        /\ autoinc.stock_in_item + Len(stock_in.items) - 1 <= MaxStockInItemId
        /\ Handle("create_stock_in", stock_in, create_stock_in(db, autoinc, stock_in))

NextParents ==
    \/ CreateSale(OneProductSaleCreates, MaxSaleId - 1)
    \/ DeleteSale
    \/ CreateStockInOf(OneProductStockInCreates, MaxStockInId)
    \/ DeleteStockIn

SpecParents == InitSeeded /\ [][NextParents]_vars

ItemsHaveParents ==
    /\ \A i \in DOMAIN db.sale_item : db.sale_item[i].sale_id \in DOMAIN db.sale
    /\ \A i \in DOMAIN db.stock_in_item :
          db.stock_in_item[i].stock_in_id \in DOMAIN db.stock_in

\* C13: every sale item references an existing sale and every stock-in item
\* an existing stock-in; delete_sale / delete_stock_in of an existing parent
\* succeeds and removes the parent and exactly its item rows.
C13_ItemsHaveParents ==
    [][/\ ItemsHaveParents'
       /\ (resp'.op = "delete_sale" /\ resp'.req.sale_id \in DOMAIN db.sale)
             => /\ resp'.status = 200
                /\ db'.sale = Remove(db.sale, {resp'.req.sale_id})
                /\ db'.sale_item =
                       Remove(db.sale_item, SaleItemsOf(db, resp'.req.sale_id))
       /\ (resp'.op = "delete_stock_in" /\ resp'.req.stock_in_id \in DOMAIN db.stock_in)
             => /\ resp'.status = 200
                /\ db'.stock_in = Remove(db.stock_in, {resp'.req.stock_in_id})
                /\ db'.stock_in_item =
                       Remove(db.stock_in_item,
                              StockInItemsOf(db, resp'.req.stock_in_id))]_vars

\* The only stock-in ever created had two items and was deleted
C13_Witness ==
    /\ resp.op = "delete_stock_in"
    /\ resp.status = 200
    /\ autoinc.stock_in = InitAutoinc.stock_in + 1
    /\ autoinc.stock_in_item = InitAutoinc.stock_in_item + 2
    /\ db.stock_in = EmptyTable
    /\ db.stock_in_item = EmptyTable

---------------------------------------------------------------------------
(* Products and the rows that reference them *)

DeleteProduct ==
    \E id \in ProductIds :
        LET req == [product_id |-> id]
        IN Handle("delete_product", req, delete_product(db, autoinc, id))

NextDeleteProduct ==
    \/ CreateSale(SaleCreates({Cash}, {}), MaxSaleId - 1)
    \/ DeleteSale
    \/ CreateStockInOf(StockInCreates, MaxStockInId - 1)
    \/ DeleteProduct

SpecDeleteProduct == InitSeeded /\ [][NextDeleteProduct]_vars

ReferencesTo(d, product_id) ==
    {<<t, i>> \in UNION {{t} \X DOMAIN d[t] :
                            t \in {"sale_item", "stock_in_item", "inventory_movement"}} :
        d[t][i].product_id = Some(product_id)}

\* C14: delete_product of an existing product succeeds, also when sale items,
\* stock-in items or inventory movements reference it, and afterwards no such
\* row references the deleted product_id.
C14_DeleteProductSucceeds ==
    (resp.op = "delete_product" /\ resp.status # 404)
        => /\ resp.status = 200
           /\ resp.req.product_id \notin DOMAIN db.product
           /\ ReferencesTo(db, resp.req.product_id) = {}

---------------------------------------------------------------------------
(* routers/inventories.py *)

OPENING == <<"O", "P", "E", "N", "I", "N", "G">>
STOCK_IN == <<"S", "T", "O", "C", "K", "_", "I", "N">>
SALE == <<"S", "A", "L", "E">>

\* line 125
allowed_types == {OPENING, STOCK_IN, SALE}

\* response_models.InventoryMovement
InventoryMovementResponse(d, movement_id) ==
    [movement_id |-> movement_id] @@ d.inventory_movement[movement_id]

get_inventory_movement_by_id(d0, ai, movement_id) ==
    LET s == SessionLocal(d0, ai) IN
    IF movement_id \notin DOMAIN s.tx.inventory_movement
    THEN Raise(404, 0, d0, s)
    ELSE Exit(200, 0, InventoryMovementResponse(s.tx, movement_id), d0, s)

\* Faulty variant: the query lacks its filter and first() returns the row
\* with the lowest id
update_first_movement_type(d0, ai, movement_id, movement_update) ==
    LET s == SessionLocal(d0, ai)
        movement_type == movement_update.movement_type
        first == CHOOSE m \in DOMAIN s.tx.inventory_movement :
                     \A n \in DOMAIN s.tx.inventory_movement : m <= n
    IN
    IF movement_id \notin DOMAIN s.tx.inventory_movement
    THEN Raise(404, movement_id, d0, s)
    ELSE IF Truthy(movement_type) /\ Upper(Val(movement_type)) \notin allowed_types
    THEN Raise(400, 0, d0, s)
    ELSE LET s1 == IF Truthy(movement_type)
                   THEN [s EXCEPT !.tx.inventory_movement[first].movement_type =
                                      Upper(Val(movement_type))]
                   ELSE s
         IN Commit(200, InventoryMovementResponse(s1.tx, movement_id), d0, s1)

update_inventory_movement_type(d0, ai, movement_id, movement_update) ==
    LET s == SessionLocal(d0, ai)
        movement_type == movement_update.movement_type
    IN
    IF movement_id \notin DOMAIN s.tx.inventory_movement
    THEN Raise(404, movement_id, d0, s)
    ELSE IF Truthy(movement_type) /\ Upper(Val(movement_type)) \notin allowed_types
    THEN Raise(400, 0, d0, s)
    ELSE LET s1 == IF Truthy(movement_type)
                   THEN [s EXCEPT !.tx.inventory_movement[movement_id].movement_type =
                                      Upper(Val(movement_type))]
                   ELSE s
         IN Commit(200, InventoryMovementResponse(s1.tx, movement_id), d0, s1)

MovementIds == 1..(MaxMovementId + 1)

\* Rows as the store's triggers write them for the seeded products
MovementRows ==
    [product_id : {Some(p) : p \in DOMAIN Seed2.db.product},
     movement_type : allowed_types, quantity : {1}, unit_cost : {Some(3)},
     sale_price : {None}, sale_item_id : {None}, stock_in_item_id : {None},
     movement_date : {CurrentTimestamp}]

MovementTables == UNION {[1..n -> MovementRows] : n \in 0..MaxMovementId}

\* InventoryMovementUpdate.movement_type: left out (None) or a string
MovementTypes ==
    {None, Some(EmptyStr), Some(<<"s", "a", "l", "e">>),
     Some(<<"S", "t", "o", "c", "k", "_", "I", "n">>), Some(OPENING),
     Some(<<"s", "o", "l", "d">>)}

GetInventoryMovementById ==
    \E id \in MovementIds :
        LET req == [movement_id |-> id]
        IN Handle("get_inventory_movement_by_id", req,
                  get_inventory_movement_by_id(db, autoinc, id))

UpdateInventoryMovementType ==
    \E id \in MovementIds, movement_type \in MovementTypes :
        LET req == [movement_id |-> id, movement_type |-> movement_type]
        IN Handle("update_inventory_movement_type", req,
                  update_inventory_movement_type(db, autoinc, id, req))

InitMovements ==
    /\ db \in {[Seed2.db EXCEPT !.inventory_movement = t] : t \in MovementTables}
    /\ autoinc = Seed2.ai
    /\ resp = NoResponse
    /\ sessions = NoSessions

NextMovements ==
    \/ GetInventoryMovementById
    \/ UpdateInventoryMovementType

SpecMovements == InitMovements /\ [][NextMovements]_vars

\* C15: update_inventory_movement_type with a movement_type that, upper-cased,
\* is not one of OPENING, STOCK_IN, SALE fails with a client error.
C15_InvalidTypeRefused ==
    (/\ resp.op = "update_inventory_movement_type"
     /\ resp.req.movement_id \in DOMAIN db.inventory_movement
     /\ resp.req.movement_type # None
     /\ Upper(Val(resp.req.movement_type)) \notin allowed_types)
        => resp.status \in ClientError

\* C16: update_inventory_movement_type neither creates nor deletes movement
\* rows, leaves every other movement and every other table as they were, and
\* changes no field of the targeted movement other than movement_type.
C16_MovementFrame ==
    [][resp'.op = "update_inventory_movement_type"
        => LET id == resp'.req.movement_id IN
           /\ DOMAIN db'.inventory_movement = DOMAIN db.inventory_movement
           /\ \A m \in DOMAIN db.inventory_movement \ {id} :
                 db'.inventory_movement[m] = db.inventory_movement[m]
           /\ \A t \in DOMAIN db \ {"inventory_movement"} : db'[t] = db[t]
           /\ id \in DOMAIN db.inventory_movement
                 => \A f \in DOMAIN db.inventory_movement[id] \ {"movement_type"} :
                       db'.inventory_movement[id][f] = db.inventory_movement[id][f]]_vars

\* The type of the second of two movements was patched with "sale"
C16_Witness ==
    /\ resp.op = "update_inventory_movement_type"
    /\ resp.status = 200
    /\ resp.req.movement_id = 2
    /\ resp.req.movement_type = Some(<<"s", "a", "l", "e">>)
    /\ db.inventory_movement[2].movement_type = SALE
    /\ db.inventory_movement[1].movement_type # SALE

---------------------------------------------------------------------------
(* Sale headers: payment method and partial updates *)

\* SaleUpdate: payment_method pattern ^(Cash|Card|QR)$, notes max_length=255
SaleUpdateOK(update) ==
    /\ Attr(update, "payment_method") # None
          => Val(Attr(update, "payment_method")) \in {Cash, Card, QR}
    /\ Attr(update, "notes") # None => Len(Val(Attr(update, "notes"))) <= 255

HeaderPaymentMethods ==
    {<<"c", "a", "s", "h">>, <<"C", "A", "R", "D">>, <<"q", "R">>, <<"c", "a", "s">>}

\* Sales of one item of the first seeded product
HeaderSaleCreates ==
    {sale \in SaleCreates(HeaderPaymentMethods, {}) :
        /\ Len(sale.items) = 1
        /\ sale.items[1].product_id \in DOMAIN Seed1.db.product}

SaleFieldSets == {{}, {"payment_method"}, {"notes"}, {"sale_datetime", "notes"}}

SaleUpdates ==
    {Restrict(u, F) :
        u \in [sale_datetime : {Some(CurrentTimestamp + 1)},
               payment_method : {None, Some(Card), Some(<<"c", "a", "r", "d">>)},
               notes : {Some(Tea)}],
        F \in SaleFieldSets}

UpdateSale ==
    \E id \in SaleIds, update \in SaleUpdates :
        LET req == [sale_id |-> id, update |-> update]
        IN IF SaleUpdateOK(update)
           THEN Handle("update_sale", req, update_sale(db, autoinc, id, update))
           ELSE Handle("update_sale", req, Refused(db, autoinc))

NextSaleHeaders ==
    \/ CreateSale(HeaderSaleCreates, MaxSaleId)
    \/ UpdateSale

SpecSaleHeaders == InitSeeded /\ [][NextSaleHeaders]_vars

\* The canonical values that equal the input ignoring letter case
Canonical(payment_method) ==
    {c \in {Cash, Card, QR} : Lower(c) = Lower(payment_method)}

\* C17: create_sale stores the canonical value Cash, Card or QR for every
\* payment_method that equals one of them ignoring letter case and answers
\* 400, persisting nothing, for every other; with update_sale the
\* payment_method of every persisted sale stays within {Cash, Card, QR}.
C17_PaymentMethodCanonical ==
    [][/\ \A a \in DOMAIN db'.sale : db'.sale[a].payment_method \in Optional({Cash, Card, QR}) \ {None}
       /\ resp'.op = "create_sale"
             => IF Canonical(resp'.req.payment_method) = {}
                THEN resp'.status = 400 /\ db' = db
                ELSE /\ resp'.status # 400
                     /\ (\A i \in DOMAIN resp'.req.items :
                            resp'.req.items[i].product_id \in DOMAIN db.product)
                           => /\ resp'.status = 201
                              /\ DOMAIN db'.sale = DOMAIN db.sale \cup {resp'.body.sale_id}
                              /\ resp'.body.sale_id \notin DOMAIN db.sale
                              /\ \E c \in Canonical(resp'.req.payment_method) :
                                    db'.sale[resp'.body.sale_id].payment_method = Some(c)]_vars

\* A sale created with payment_method "qR" is stored with QR
C17_Witness ==
    /\ resp.op = "create_sale"
    /\ resp.status = 201
    /\ resp.req.payment_method = <<"q", "R">>
    /\ db.sale[resp.body.sale_id].payment_method = Some(QR)

\* C19: update_sale leaves the sale items, the other sales and every other
\* table as they were, does not write total_amount, keeps each header field
\* that the request does not carry and, when it succeeds, gives each field
\* the request carries the value sent.
C19_UpdateSaleFrame ==
    [][resp'.op = "update_sale"
        => LET id == resp'.req.sale_id
               update == resp'.req.update
           IN /\ DOMAIN db'.sale = DOMAIN db.sale
              /\ \A a \in DOMAIN db.sale \ {id} : db'.sale[a] = db.sale[a]
              /\ \A t \in DOMAIN db \ {"sale"} : db'[t] = db[t]
              /\ id \in DOMAIN db.sale
                    => /\ \A f \in DOMAIN db.sale[id] \ DOMAIN update :
                             db'.sale[id][f] = db.sale[id][f]
                       /\ resp'.status = 200
                             => \A f \in DOMAIN update : db'.sale[id][f] = update[f]
                       /\ resp'.status # 200 => db'.sale[id] = db.sale[id]]_vars

\* The notes and date of the second of two sales were updated
C19_Witness ==
    /\ resp.op = "update_sale"
    /\ resp.status = 200
    /\ DOMAIN resp.req.update = {"sale_datetime", "notes"}
    /\ resp.req.sale_id = 2
    /\ db.sale[2].notes = Some(Tea)
    /\ 1 \in DOMAIN db.sale /\ db.sale[1].notes = None
    /\ SaleItemsOf(db, 2) # {}

---------------------------------------------------------------------------
(* Unit prices of sale items *)

\* Sales whose items name the first seeded product, with or without a price
\* (SaleItemCreate sets no bound on unit_price: 0 is a price sent)
PricedSaleCreates ==
    {sale \in SaleCreates({Cash}, {0}) :
        \A i \in DOMAIN sale.items : sale.items[i].product_id \in DOMAIN Seed1.db.product}

\* The price of a seeded product is changed
RepriceProduct ==
    \E id \in DOMAIN Seed2.db.product :
        LET update == [price |-> Some(9)]
            req == [product_id |-> id, update |-> update]
        IN Handle("update_product", req, update_product(db, autoinc, id, update))

NextUnitPrices ==
    \/ CreateSale(PricedSaleCreates, MaxSaleId - 1)
    \/ AddSaleItem(SaleItemCreates({0}))
    \/ RepriceProduct

SpecUnitPrices == InitSeeded /\ [][NextUnitPrices]_vars

\* The unit_price an item request stands for: the one sent, else the product's
ExpectedUnitPrice(d, item) ==
    IF item.unit_price = None THEN d.product[item.product_id].price ELSE item.unit_price

\* C18: a sale item created by create_sale or add_sale_item without a
\* unit_price is stored with the price its product has at the time of the
\* call; with a unit_price it is stored with the one supplied.
C18_UnitPriceDefault ==
    [][/\ (resp'.op = "create_sale" /\ resp'.status = 201)
             => /\ DOMAIN db'.sale_item =
                       DOMAIN db.sale_item
                           \cup {autoinc.sale_item + k - 1 : k \in DOMAIN resp'.req.items}
                /\ \A k \in DOMAIN resp'.req.items :
                       LET row == db'.sale_item[autoinc.sale_item + k - 1] IN
                       /\ row.sale_id = resp'.body.sale_id
                       /\ row.product_id = Some(resp'.req.items[k].product_id)
                       /\ row.unit_price = ExpectedUnitPrice(db, resp'.req.items[k])
       /\ (resp'.op = "add_sale_item" /\ resp'.status = 201)
             => /\ DOMAIN db'.sale_item = DOMAIN db.sale_item \cup {autoinc.sale_item}
                /\ db'.sale_item[autoinc.sale_item].unit_price =
                       ExpectedUnitPrice(db, resp'.req.item)
                /\ resp'.body.unit_price = ExpectedUnitPrice(db, resp'.req.item)]_vars

\* An item added without a unit_price after its product was repriced
C18_Witness ==
    /\ resp.op = "add_sale_item"
    /\ resp.status = 201
    /\ resp.req.item.unit_price = None
    /\ db.product[resp.req.item.product_id].price = Some(9)
    /\ resp.body.unit_price = Some(9)

---------------------------------------------------------------------------
(* The product of a sale item *)

\* Sales whose items name seeded products
SeededSaleCreates ==
    {sale \in SaleCreates({Cash}, {}) :
        \A i \in DOMAIN sale.items : sale.items[i].product_id \in DOMAIN Seed2.db.product}

NextSaleItems ==
    \/ CreateSale(SeededSaleCreates, MaxSaleId - 1)
    \/ UpdateSaleItem(SaleItemUpdates({"product_id"}))

SpecSaleItems == InitSeeded /\ [][NextSaleItems]_vars

\* C20: update_sale_item with a product_id other than the item's fails with
\* 404 when no product has it and with 400 when another item of the same sale
\* has it, the store unchanged in both cases; with the item's current
\* product_id it succeeds.
C20_UpdateSaleItemProduct ==
    [][(/\ resp'.op = "update_sale_item"
        /\ resp'.req.item_id \in SaleItemsOf(db, resp'.req.sale_id)
        /\ Attr(resp'.req.update, "product_id") # None)
          => LET item_id == resp'.req.item_id
                 product_id == Attr(resp'.req.update, "product_id")
                 current == db.sale_item[item_id].product_id
                 others == SaleItemsOf(db, resp'.req.sale_id) \ {item_id}
             IN /\ (product_id # current /\ Val(product_id) \notin DOMAIN db.product)
                      => resp'.status = 404 /\ db' = db
                /\ (/\ product_id # current
                    /\ \E i \in others : db.sale_item[i].product_id = product_id)
                      => resp'.status = 400 /\ db' = db
                /\ product_id = current
                      => /\ resp'.status = 200
                         /\ db'.sale_item[item_id].product_id = current]_vars

\* An update refused because another item of the sale has the product
C20_Witness ==
    /\ resp.op = "update_sale_item"
    /\ resp.status = 400
    /\ resp.req.item_id \in SaleItemsOf(db, resp.req.sale_id)
    /\ \E i \in SaleItemsOf(db, resp.req.sale_id) \ {resp.req.item_id} :
          db.sale_item[i].product_id = resp.req.update.product_id

---------------------------------------------------------------------------
(* The totals of sales and stock-ins *)

\* Stores in which the total of a sale or of a stock-in was recomputed
\* outside this layer from its item: total_amount 5, total_cost 3
SaleTotalledDb ==
    [Seed2.db EXCEPT
        !.sale = 1 :> [sale_datetime |-> Some(CurrentTimestamp), total_amount |-> 5,
                       payment_method |-> Some(Cash), notes |-> None],
        !.sale_item = 1 :> [sale_id |-> 1, product_id |-> Some(1), quantity |-> Some(1),
                            unit_price |-> Some(5), discount |-> Some(0)]]

StockInTotalledDb ==
    [Seed2.db EXCEPT
        !.stock_in = 1 :> [ref_no |-> None, stock_in_date |-> Some(CurrentTimestamp),
                           total_cost |-> 3, notes |-> None],
        !.stock_in_item = 1 :> [stock_in_id |-> 1, product_id |-> Some(1),
                                quantity |-> Some(1), unit_cost |-> Some(3)]]

\* The counters leave room for one more parent and one more item in the
\* tables that hold the totalled row and for none in the others
InitTotals ==
    /\ \/ /\ db = SaleTotalledDb
          /\ autoinc = [Seed2.ai EXCEPT !.sale = MaxSaleId, !.sale_item = MaxSaleItemId,
                                        !.stock_in = MaxStockInId + 1,
                                        !.stock_in_item = MaxStockInItemId + 1]
       \/ /\ db = StockInTotalledDb
          /\ autoinc = [Seed2.ai EXCEPT !.sale = MaxSaleId + 1,
                                        !.sale_item = MaxSaleItemId + 1,
                                        !.stock_in = MaxStockInId,
                                        !.stock_in_item = MaxStockInItemId]
    /\ resp = NoResponse
    /\ sessions = NoSessions

\* SaleUpdate and StockInUpdate bodies: nothing sent, or the notes
NotesUpdates == {Restrict([notes |-> Some(Tea)], F) : F \in SUBSET {"notes"}}

UpdateSaleNotes ==
    \E id \in SaleIds, update \in NotesUpdates :
        LET req == [sale_id |-> id, update |-> update]
        IN Handle("update_sale", req, update_sale(db, autoinc, id, update))

UpdateStockIn ==
    \E id \in StockInIds, update \in NotesUpdates :
        LET req == [stock_in_id |-> id, update |-> update]
        IN Handle("update_stock_in", req, update_stock_in(db, autoinc, id, update))

\* Sales and stock-ins of one item of a seeded product, priced by the request
TotalledSaleCreates ==
    {sale \in SaleCreates({Cash}, {7}) :
        /\ Len(sale.items) = 1
        /\ sale.items[1].product_id \in DOMAIN Seed1.db.product}

TotalledStockInCreates ==
    {stock_in \in OneProductStockInCreates : Len(stock_in.items) = 1}

NextTotals ==
    \/ CreateSale(TotalledSaleCreates, MaxSaleId)
    \/ UpdateSaleNotes
    \/ AddSaleItem(SaleItemCreates({}))
    \/ UpdateSaleItem(SaleItemUpdates({"quantity"}))
    \/ DeleteSaleItem
    \/ CreateStockInOf(TotalledStockInCreates, MaxStockInId)
    \/ UpdateStockIn
    \/ AddStockInItem
    \/ UpdateStockInItem
    \/ DeleteStockInItem

SpecTotals == InitTotals /\ [][NextTotals]_vars

\* C21: no request changes the total_amount of a sale or the total_cost of a
\* stock-in that exists before and after it; a sale appears only through
\* create_sale and a stock-in only through create_stock_in, each with total
\* 0 whatever items the request carries.
C21_TotalsNotWritten ==
    [][/\ \A a \in DOMAIN db.sale \cap DOMAIN db'.sale :
             db'.sale[a].total_amount = db.sale[a].total_amount
       /\ \A a \in DOMAIN db'.sale \ DOMAIN db.sale :
             resp'.op = "create_sale" /\ db'.sale[a].total_amount = 0
       /\ \A a \in DOMAIN db.stock_in \cap DOMAIN db'.stock_in :
             db'.stock_in[a].total_cost = db.stock_in[a].total_cost
       /\ \A a \in DOMAIN db'.stock_in \ DOMAIN db.stock_in :
             resp'.op = "create_stock_in" /\ db'.stock_in[a].total_cost = 0]_vars

\* A sale created with a priced item has total 0, while the sale whose total
\* was 5 keeps it after its only item was deleted
C21_Witness ==
    /\ resp.op = "create_sale"
    /\ resp.status = 201
    /\ resp.req.items[1].unit_price = Some(7)
    /\ db.sale[resp.body.sale_id].total_amount = 0
    /\ SaleItemsOf(db, resp.body.sale_id) # {}
    /\ resp.body.sale_id # 1
    /\ db.sale[1].total_amount = 5
    /\ SaleItemsOf(db, 1) = {}

---------------------------------------------------------------------------
(* Date filters and the lists of sales.py, stocks.py, inventories.py *)

Digits == <<"0", "1", "2", "3", "4", "5", "6", "7", "8", "9">>

IsDigits(s) == \A i \in DOMAIN s : \E k \in DOMAIN Digits : Digits[k] = s[i]

DigitVal(c) == (CHOOSE k \in DOMAIN Digits : Digits[k] = c) - 1

RECURSIVE ToInt(_)
ToInt(s) == IF s = <<>> THEN 0 ELSE 10 * ToInt(SubSeq(s, 1, Len(s) - 1)) + DigitVal(s[Len(s)])

IsLeap(year) == year % 4 = 0 /\ (year % 100 # 0 \/ year % 400 = 0)

DaysInMonth(year, month) ==
    IF month = 2 THEN (IF IsLeap(year) THEN 29 ELSE 28)
    ELSE IF month \in {4, 6, 9, 11} THEN 30 ELSE 31

RECURSIVE DaysBeforeMonth(_, _)
DaysBeforeMonth(year, month) ==
    IF month = 1 THEN 0
    ELSE DaysBeforeMonth(year, month - 1) + DaysInMonth(year, month - 1)

\* date.toordinal(): days since 0001-01-01, that day being 1
toordinal(year, month, day) ==
    LET y == year - 1
    IN 365 * y + (y \div 4) - (y \div 100) + (y \div 400)
       + DaysBeforeMonth(year, month) + day

\* The model's clock counts days: CurrentTimestamp is 2025-01-01
ClockDay(year, month, day) ==
    toordinal(year, month, day) - toordinal(2025, 1, 1) + CurrentTimestamp

\* datetime.strptime(s, "%Y-%m-%d").date() as a day of the clock; None when
\* it raises ValueError: four digits of year, one or two of month and of
\* day, separated by "-", naming a day of the calendar
strptime(s) ==
    LET dashes == {i \in DOMAIN s : s[i] = "-"}
    IN IF Cardinality(dashes) # 2 THEN None
       ELSE LET d1 == CHOOSE i \in dashes : \A j \in dashes : i <= j
                d2 == CHOOSE i \in dashes : \A j \in dashes : i >= j
                Y == SubSeq(s, 1, d1 - 1)
                m == SubSeq(s, d1 + 1, d2 - 1)
                d == SubSeq(s, d2 + 1, Len(s))
            IN IF /\ IsDigits(Y) /\ IsDigits(m) /\ IsDigits(d)
                  /\ Len(Y) = 4 /\ Len(m) \in 1..2 /\ Len(d) \in 1..2
                  /\ ToInt(Y) >= 1
                  /\ ToInt(m) \in 1..12
                  /\ ToInt(d) \in 1..DaysInMonth(ToInt(Y), ToInt(m))
               THEN Some(ClockDay(ToInt(Y), ToInt(m), ToInt(d)))
               ELSE None

\* if search_params.start_date: ... except ValueError: raise 400, the same
\* for end_date
DatesOK(params) ==
    /\ Truthy(params.start_date) => strptime(Val(params.start_date)) # None
    /\ Truthy(params.end_date) => strptime(Val(params.end_date)) # None

\* column >= start_date and column <= the last instant of end_date, for a
\* column value t in days of the clock
InDates(t, params) ==
    /\ Truthy(params.start_date) => t >= Val(strptime(Val(params.start_date)))
    /\ Truthy(params.end_date) => t <= Val(strptime(Val(params.end_date)))

FilterSales(d, params) ==
    {id \in DOMAIN d.sale :
        /\ Truthy(params.search) =>
              /\ d.sale[id].notes # None
              /\ ilike(Val(d.sale[id].notes), Val(params.search))
        /\ Truthy(params.payment_method) =>
              d.sale[id].payment_method = params.payment_method
        /\ InDates(Val(d.sale[id].sale_datetime), params)}

\* Faulty variant: an empty result is NotFound on every page
get_all_sales_strict(d0, ai, params, ordered) ==
    LET s == SessionLocal(d0, ai)
        total == Cardinality(FilterSales(s.tx, params))
        sales == OffsetLimit(ordered, (params.page - 1) * params.limit, params.limit)
    IN
    IF ~DatesOK(params)
    THEN Raise(400, 0, d0, s)
    ELSE IF sales = <<>>
    THEN Raise(404, 0, d0, s)
    ELSE Exit(200, 0, PaginatedResponse(sales, total, params.page, params.limit), d0, s)

get_all_sales(d0, ai, params, ordered) ==
    LET s == SessionLocal(d0, ai)
        total == Cardinality(FilterSales(s.tx, params))
        sales == OffsetLimit(ordered, (params.page - 1) * params.limit, params.limit)
    IN
    IF ~DatesOK(params)
    THEN Raise(400, 0, d0, s)
    ELSE IF sales = <<>> /\ params.page = 1
    THEN Raise(404, 0, d0, s)
    ELSE Exit(200, 0, PaginatedResponse(sales, total, params.page, params.limit), d0, s)

FilterStockIns(d, params) ==
    {id \in DOMAIN d.stock_in :
        /\ Truthy(params.search) =>
              \/ /\ d.stock_in[id].ref_no # None
                 /\ ilike(Val(d.stock_in[id].ref_no), Val(params.search))
              \/ /\ d.stock_in[id].notes # None
                 /\ ilike(Val(d.stock_in[id].notes), Val(params.search))
        /\ InDates(Val(d.stock_in[id].stock_in_date), params)}

get_all_stock_in(d0, ai, params, ordered) ==
    LET s == SessionLocal(d0, ai)
        total == Cardinality(FilterStockIns(s.tx, params))
        stock_ins == OffsetLimit(ordered, (params.page - 1) * params.limit, params.limit)
    IN
    IF ~DatesOK(params)
    THEN Raise(400, 0, d0, s)
    ELSE IF stock_ins = <<>> /\ params.page = 1
    THEN Raise(404, 0, d0, s)
    ELSE Exit(200, 0, PaginatedResponse(stock_ins, total, params.page, params.limit),
              d0, s)

\* if search_params.movement_type: validated against allowed_types
MovementTypeOK(params) ==
    Truthy(params.movement_type) => Upper(Val(params.movement_type)) \in allowed_types

FilterMovements(d, params) ==
    {id \in DOMAIN d.inventory_movement :
        /\ (params.product_id # None /\ Val(params.product_id) # 0) =>
              d.inventory_movement[id].product_id = params.product_id
        /\ Truthy(params.movement_type) =>
              d.inventory_movement[id].movement_type = Upper(Val(params.movement_type))
        /\ InDates(d.inventory_movement[id].movement_date, params)}

get_all_inventory_movements(d0, ai, params, ordered) ==
    LET s == SessionLocal(d0, ai)
        total == Cardinality(FilterMovements(s.tx, params))
        movements == OffsetLimit(ordered, (params.page - 1) * params.limit, params.limit)
    IN
    IF ~MovementTypeOK(params)
    THEN Raise(400, 0, d0, s)
    ELSE IF ~DatesOK(params)
    THEN Raise(400, 0, d0, s)
    ELSE IF movements = <<>> /\ params.page = 1
    THEN Raise(404, 0, d0, s)
    ELSE Exit(200, 0, PaginatedResponse(movements, total, params.page, params.limit),
              d0, s)

\* ORDER BY column DESC, for a column of clock days
DescKey(t, column) ==
    [id \in DOMAIN t |->
        -(IF column = "movement_date" THEN t[id][column] ELSE Val(t[id][column]))]

\* start_date / end_date as sent: left out, dates, a day no month has, no date
DateFilters ==
    {[start_date |-> None, end_date |-> None],
     [start_date |-> Some(<<"2", "0", "2", "5", "-", "0", "1", "-", "0", "2">>),
      end_date |-> None],
     [start_date |-> Some(EmptyStr),
      end_date |-> Some(<<"2", "0", "2", "5", "-", "1", "-", "1">>)],
     [start_date |-> Some(<<"2", "0", "2", "5", "-", "0", "2", "-", "3", "0">>),
      end_date |-> None],
     [start_date |-> None, end_date |-> Some(<<"x">>)]}

SaleSearchParams ==
    {[page |-> page, limit |-> limit, search |-> search, payment_method |-> pm,
      start_date |-> dates.start_date, end_date |-> dates.end_date] :
        page \in Pages, limit \in Limits, search \in {None, Some(<<"E">>)},
        pm \in {None, Some(Cash)}, dates \in DateFilters}

StockInSearchParams ==
    {[page |-> page, limit |-> limit, search |-> search,
      start_date |-> dates.start_date, end_date |-> dates.end_date] :
        page \in Pages, limit \in Limits, search \in {None, Some(<<"s">>)},
        dates \in DateFilters}

InventoryMovementSearchParams ==
    {[page |-> page, limit |-> limit, product_id |-> product_id,
      movement_type |-> movement_type,
      start_date |-> dates.start_date, end_date |-> dates.end_date] :
        page \in Pages, limit \in Limits, product_id \in {None, Some(1)},
        movement_type \in {None, Some(<<"s", "a", "l", "e">>), Some(<<"s", "o", "l", "d">>)},
        dates \in DateFilters}

GetAllSales ==
    /\ resp = NoResponse
    /\ \E params \in SaleSearchParams :
        IF ~PaginationParamsOK(params.page, params.limit)
        THEN Handle("get_all_sales", params, Refused(db, autoinc))
        ELSE IF ~DatesOK(params)
        THEN Handle("get_all_sales", params, get_all_sales(db, autoinc, params, <<>>))
        ELSE \E ordered \in Orderings(FilterSales(db, params),
                                      DescKey(db.sale, "sale_datetime")) :
                Handle("get_all_sales", params, get_all_sales(db, autoinc, params, ordered))

GetAllStockIn ==
    /\ resp = NoResponse
    /\ \E params \in StockInSearchParams :
        IF ~PaginationParamsOK(params.page, params.limit)
        THEN Handle("get_all_stock_in", params, Refused(db, autoinc))
        ELSE IF ~DatesOK(params)
        THEN Handle("get_all_stock_in", params,
                    get_all_stock_in(db, autoinc, params, <<>>))
        ELSE \E ordered \in Orderings(FilterStockIns(db, params),
                                      DescKey(db.stock_in, "stock_in_date")) :
                Handle("get_all_stock_in", params,
                       get_all_stock_in(db, autoinc, params, ordered))

GetAllInventoryMovements ==
    /\ resp = NoResponse
    /\ \E params \in InventoryMovementSearchParams :
        IF ~PaginationParamsOK(params.page, params.limit)
        THEN Handle("get_all_inventory_movements", params, Refused(db, autoinc))
        ELSE IF ~(MovementTypeOK(params) /\ DatesOK(params))
        THEN Handle("get_all_inventory_movements", params,
                    get_all_inventory_movements(db, autoinc, params, <<>>))
        ELSE \E ordered \in Orderings(FilterMovements(db, params),
                                      DescKey(db.inventory_movement, "movement_date")) :
                Handle("get_all_inventory_movements", params,
                       get_all_inventory_movements(db, autoinc, params, ordered))

\* Stores to list: n sales, n stock-ins or n movements, some on the same day
ListSaleRows ==
    {[sale_datetime |-> Some(CurrentTimestamp), total_amount |-> 0,
      payment_method |-> Some(Cash), notes |-> None],
     [sale_datetime |-> Some(CurrentTimestamp + 1), total_amount |-> 0,
      payment_method |-> Some(Cash), notes |-> Some(Tea)],
     [sale_datetime |-> Some(CurrentTimestamp + 1), total_amount |-> 0,
      payment_method |-> Some(Card), notes |-> None]}

ListStockInRows ==
    {[ref_no |-> None, stock_in_date |-> Some(CurrentTimestamp), total_cost |-> 0,
      notes |-> None],
     [ref_no |-> Some(S1), stock_in_date |-> Some(CurrentTimestamp + 1),
      total_cost |-> 0, notes |-> None],
     [ref_no |-> None, stock_in_date |-> Some(CurrentTimestamp + 1), total_cost |-> 0,
      notes |-> Some(Tea)]}

ListMovementRows ==
    {[r EXCEPT !.movement_date = CurrentTimestamp + 1] :
        r \in {m \in MovementRows : m.movement_type = SALE}}
    \cup {m \in MovementRows : m.movement_type = OPENING /\ m.product_id = Some(1)}

ParentListDbs ==
    UNION {{[Seed2.db EXCEPT !.sale = t] : t \in [1..n -> ListSaleRows]}
           \cup {[Seed2.db EXCEPT !.stock_in = t] : t \in [1..n -> ListStockInRows]}
           \cup {[Seed2.db EXCEPT !.inventory_movement = t] :
                    t \in [1..n -> ListMovementRows]} :
              n \in 0..MaxListRows}

InitAllLists ==
    /\ db \in ListDbs \cup ParentListDbs
    /\ autoinc = [InitAutoinc EXCEPT !.category = Cardinality(DOMAIN db.category) + 1,
                                     !.product = Cardinality(DOMAIN db.product) + 1,
                                     !.sale = Cardinality(DOMAIN db.sale) + 1,
                                     !.stock_in = Cardinality(DOMAIN db.stock_in) + 1]
    /\ resp = NoResponse
    /\ sessions = NoSessions

NextAllLists ==
    \/ GetAllCategories
    \/ GetAllProducts
    \/ GetAllSales
    \/ GetAllStockIn
    \/ GetAllInventoryMovements

SpecAllLists == InitAllLists /\ [][NextAllLists]_vars

\* The rows a list request's filters select
Filtered(op, d, params) ==
    CASE op = "get_all_categories" -> FilterCategories(d, params)
      [] op = "get_all_products" -> FilterProducts(d, params)
      [] op = "get_all_sales" -> FilterSales(d, params)
      [] op = "get_all_stock_in" -> FilterStockIns(d, params)
      [] op = "get_all_inventory_movements" -> FilterMovements(d, params)

\* C22: a list of categories, products, sales, stock-ins or inventory
\* movements whose parameters were accepted answers 404 exactly when page is
\* 1 and no row passes the filters; for a page above 1 that lies beyond the
\* last page it answers 200 with no items and the number of rows that pass
\* the filters as total.
C22_NotFoundOnlyOnFirstPage ==
    (/\ resp.op \in {"get_all_categories", "get_all_products", "get_all_sales",
                     "get_all_stock_in", "get_all_inventory_movements"}
     /\ resp.status \notin {400, 422})
        => LET rows == Filtered(resp.op, db, resp.req)
               total == Cardinality(rows)
           IN /\ resp.status = 404 <=> (resp.req.page = 1 /\ rows = {})
              /\ (resp.req.page > 1 /\ (resp.req.page - 1) * resp.req.limit >= total)
                    => /\ resp.status = 200
                       /\ resp.body.items = <<>>
                       /\ resp.body.total = total

\* Page 2 of a list of sales that all fit on page 1
C22_Witness ==
    /\ resp.op = "get_all_sales"
    /\ resp.status = 200
    /\ resp.req.page = 2
    /\ resp.body.items = <<>>
    /\ resp.body.total > 0
    /\ resp.body.total <= resp.req.limit

---------------------------------------------------------------------------
(* One request of every kind on a store *)

\* The store after a category, two products, a sale of both products and a
\* stock-in of both were created, with one movement row
Seed3 == create_category(Seed2.db, Seed2.ai, [name |-> Tea])

Seed4 ==
    create_sale(Seed3.db, Seed3.ai,
                [sale_datetime |-> None, payment_method |-> Cash, notes |-> None,
                 items |-> <<[product_id |-> 1, quantity |-> 1, unit_price |-> None,
                              discount |-> 0],
                             [product_id |-> 2, quantity |-> 1, unit_price |-> None,
                              discount |-> 0]>>])

Seed5 ==
    create_stock_in(Seed4.db, Seed4.ai,
                    [stock_in_date |-> None, ref_no |-> None, notes |-> None,
                     items |-> <<[product_id |-> 1, quantity |-> 1, unit_cost |-> 3],
                                 [product_id |-> 2, quantity |-> 1, unit_cost |-> 3]>>])

FullDb ==
    [Seed5.db EXCEPT
        !.inventory_movement =
            1 :> [product_id |-> Some(1), movement_type |-> OPENING, quantity |-> 1,
                  unit_cost |-> Some(3), sale_price |-> None, sale_item_id |-> None,
                  stock_in_item_id |-> None, movement_date |-> CurrentTimestamp]]

InitRequests ==
    /\ \/ db = EmptyDb /\ autoinc = InitAutoinc
       \/ db = Seed2.db /\ autoinc = Seed2.ai
       \/ db = FullDb /\ autoinc = Seed5.ai
    /\ resp = NoResponse
    /\ sessions = NoSessions

\* No request was made on the store yet
Idle == resp = NoResponse

\* Every handler, once per store
NextRequests ==
    \/ Idle /\ CreateCategory(MaxCategoryId + 1)
    \/ Idle /\ GetCategoryById
    \/ Idle /\ UpdateCategory
    \/ Idle /\ DeleteCategory
    \/ Idle /\ CreateProduct(MaxProductId + 2)
    \/ Idle /\ GetProductById
    \/ Idle /\ UpdateProduct
    \/ Idle /\ DeleteProduct
    \/ Idle /\ CreateSale(SaleCreates(PaymentMethods, {}), MaxSaleId)
    \/ Idle /\ GetSaleById
    \/ Idle /\ UpdateSale
    \/ Idle /\ DeleteSale
    \/ Idle /\ AddSaleItem(SaleItemCreates({}))
    \/ Idle /\ UpdateSaleItem(SaleItemUpdates({"product_id"}))
    \/ Idle /\ DeleteSaleItem
    \/ Idle /\ CreateStockIn
    \/ Idle /\ GetStockInById
    \/ Idle /\ UpdateStockIn
    \/ Idle /\ DeleteStockIn
    \/ Idle /\ AddStockInItem
    \/ Idle /\ UpdateStockInItem
    \/ Idle /\ DeleteStockInItem
    \/ Idle /\ GetInventoryMovementById
    \/ Idle /\ UpdateInventoryMovementType
    \/ Idle /\ GetAllCategories
    \/ Idle /\ GetAllProducts
    \/ Idle /\ GetAllSales
    \/ Idle /\ GetAllStockIn
    \/ Idle /\ GetAllInventoryMovements
    \/ Idle /\ GetProductStockReport

SpecRequests == InitRequests /\ [][NextRequests]_vars

\* C23: a request answered with 400 or 404 leaves every table as it was
\* before the request.
C23_ClientErrorKeepsStore ==
    [][resp'.status \in ClientError => db' = db]_vars

\* create_sale answered 404 for its second item after the sale and the first
\* item were added to the session
C23_Witness ==
    /\ resp.op = "create_sale"
    /\ resp.status = 404
    /\ resp.added = 2
    /\ autoinc.sale = Seed2.ai.sale + 1
    /\ db = Seed2.db

---------------------------------------------------------------------------
(* Requests in flight: database.py get_db and the steps of the handlers of   *)
(* sales.py that reach the store.  Every request has its own session; the    *)
(* store (MySQL, InnoDB at its default isolation) gives a transaction the    *)
(* committed content as of its first read, plus its own writes, and makes    *)
(* its writes visible to the others at COMMIT.  AUTO_INCREMENT values are    *)
(* taken from the table's counter at the INSERT.                             *)

Requests == 1..MaxRequests

NoSession ==
    [op |-> "none", req |-> <<>>, pc |-> "idle", open |-> FALSE,
     snap |-> EmptyDb, s |-> SessionLocal(EmptyDb, InitAutoinc),
     parent |-> 0, status |-> 0, body |-> <<>>]

\* db = SessionLocal(); yield db
get_db_acquire(op, req) ==
    [NoSession EXCEPT !.op = op, !.req = req, !.pc = "handler", !.open = TRUE]

\* Faulty variant: db.close() follows the yield without try/finally and is
\* skipped when the handler raises
get_db_no_finally(session) ==
    IF session.status < 400
    THEN [session EXCEPT !.pc = "closed", !.open = FALSE,
                         !.snap = EmptyDb, !.s = NoSession.s]
    ELSE [session EXCEPT !.pc = "closed"]

\* finally: db.close(), on every exit of the handler; what the transaction
\* had not committed is rolled back
get_db_finally(session) ==
    [session EXCEPT !.pc = "closed", !.open = FALSE,
                    !.snap = EmptyDb, !.s = NoSession.s]

\* The rows a session's transaction wrote: those of its view that its
\* snapshot lacks or holds with other values
Own(session) ==
    [t \in DOMAIN session.s.tx |->
        [id \in {i \in DOMAIN session.s.tx[t] :
                    \/ i \notin DOMAIN session.snap[t]
                    \/ session.s.tx[t][i] # session.snap[t][i]}
            |-> session.s.tx[t][id]]]

\* The content d with the rows own written over it
Merge(d, own) == [t \in DOMAIN d |-> own[t] @@ d[t]]

\* The first read of a transaction fixes what it sees of the store
Snapshot(session, d) ==
    [session EXCEPT !.snap = d, !.s.tx = Merge(d, Own(session))]

\* The handler returns or raises with this status
Exited(session, status, body) ==
    [session EXCEPT !.pc = "exited", !.status = status, !.body = body]

\* sales.py lines 199-231, up to db.add(new_item)
add_sale_item_check(v) ==
    LET sale_id == v.req.sale_id
        item == v.req.item
    IN
    IF sale_id \notin DOMAIN v.s.tx.sale
    THEN Exited(v, 404, <<>>)
    ELSE IF item.product_id \notin DOMAIN v.s.tx.product
    THEN Exited(v, 404, <<>>)
    ELSE IF \E i \in SaleItemsOf(v.s.tx, sale_id) :
                v.s.tx.sale_item[i].product_id = Some(item.product_id)
    THEN Exited(v, 400, <<>>)
    ELSE LET product == v.s.tx.product[item.product_id]
             new_item ==
                 [sale_id |-> sale_id, product_id |-> Some(item.product_id),
                  quantity |-> Some(item.quantity),
                  unit_price |-> IF item.unit_price = None THEN product.price
                                 ELSE item.unit_price,
                  discount |-> Some(item.discount)]
         IN [v EXCEPT !.pc = "commit", !.s = Add(v.s, "sale_item", new_item)]

\* Faulty variant: the flushed sale row is written to the store at once, as
\* with an autocommit connection
create_sale_flush_visible(session, d, ai) ==
    LET payment_method == NormalizePaymentMethod(session.req.payment_method) IN
    IF payment_method \notin {Cash, Card, QR}
    THEN [db |-> d, ai |-> ai, session |-> Exited(session, 400, <<>>)]
    ELSE LET new_sale ==
                 [sale_datetime |-> IF session.req.sale_datetime = None
                                    THEN Some(CurrentTimestamp)
                                    ELSE session.req.sale_datetime,
                  total_amount |-> 0, payment_method |-> Some(payment_method),
                  notes |-> session.req.notes]
             s1 == Flush(Add(SessionLocal(d, ai), "sale", new_sale))
         IN [db |-> s1.tx, ai |-> s1.ai,
             session |-> [session EXCEPT !.pc = "items", !.snap = s1.tx, !.s = s1,
                                         !.parent = ai.sale]]

\* sales.py lines 19-33: the payment method, db.add(new_sale), db.flush()
create_sale_flush(session, d, ai) ==
    LET payment_method == NormalizePaymentMethod(session.req.payment_method) IN
    IF payment_method \notin {Cash, Card, QR}
    THEN [db |-> d, ai |-> ai, session |-> Exited(session, 400, <<>>)]
    ELSE LET new_sale ==
                 [sale_datetime |-> IF session.req.sale_datetime = None
                                    THEN Some(CurrentTimestamp)
                                    ELSE session.req.sale_datetime,
                  total_amount |-> 0, payment_method |-> Some(payment_method),
                  notes |-> session.req.notes]
             s1 == Flush(Add(SessionLocal(d, ai), "sale", new_sale))
         IN [db |-> d, ai |-> s1.ai,
             session |-> [session EXCEPT !.pc = "items", !.snap = d, !.s = s1,
                                         !.parent = ai.sale]]

\* lines 49-57: db.add(sale_item) for the items from item i on
RECURSIVE add_sale_items(_, _, _, _)
add_sale_items(s, sale_id, items, i) ==
    IF i > Len(items) THEN s
    ELSE LET product == s.tx.product[items[i].product_id]
             sale_item ==
                 [sale_id |-> sale_id, product_id |-> Some(items[i].product_id),
                  quantity |-> Some(items[i].quantity),
                  unit_price |-> IF items[i].unit_price # None
                                 THEN items[i].unit_price ELSE product.price,
                  discount |-> Some(items[i].discount)]
         IN add_sale_items(Add(s, "sale_item", sale_item), sale_id, items, i + 1)

\* lines 36-57: the loop over sale.items; its product queries read one
\* snapshot, so the items before a missing product are only added to a
\* session that is then closed
create_sale_check_items(v) ==
    LET missing == validate_products(v.s.tx, v.req.items, 1) IN
    IF missing # 0
    THEN Exited(v, 404, <<>>)
    ELSE [v EXCEPT !.pc = "commit",
                   !.s = add_sale_items(v.s, v.parent, v.req.items, 1)]

\* sales.py lines 146-156, up to the setattr loop
update_sale_check(v) ==
    LET sale_id == v.req.sale_id IN
    IF sale_id \notin DOMAIN v.s.tx.sale
    THEN Exited(v, 404, <<>>)
    ELSE [v EXCEPT !.pc = "commit",
                   !.s.tx.sale[sale_id] = SetAttrs(@, v.req.update)]

\* sales.py lines 135-140 and the load of sale.items for the response
get_sale_query(v) ==
    LET sale_id == v.req.sale_id IN
    IF sale_id \notin DOMAIN v.s.tx.sale
    THEN Exited(v, 404, <<>>)
    ELSE Exited(v, 200, SaleResponse(v.s.tx, sale_id))

\* stocks.py lines 19-46: the products are validated, the stock-in is added
\* and flushed, its items are added
create_stock_in_flush(v, ai) ==
    LET missing == validate_products(v.s.tx, v.req.items, 1) IN
    IF missing # 0
    THEN Exited(v, 404, <<>>)
    ELSE LET new_stock_in ==
                 [ref_no |-> v.req.ref_no,
                  stock_in_date |-> IF v.req.stock_in_date = None
                                    THEN Some(CurrentTimestamp) ELSE v.req.stock_in_date,
                  total_cost |-> 0, notes |-> v.req.notes]
             s1 == Flush(Add([v.s EXCEPT !.ai = ai], "stock_in", new_stock_in))
         IN [v EXCEPT !.pc = "commit", !.parent = ai.stock_in,
                      !.s = add_stock_in_items(s1, ai.stock_in, v.req.items, 1)]

\* stocks.py lines 123-128 and the load of stock_in.items for the response
get_stock_in_query(v) ==
    LET stock_in_id == v.req.stock_in_id IN
    IF stock_in_id \notin DOMAIN v.s.tx.stock_in
    THEN Exited(v, 404, <<>>)
    ELSE Exited(v, 200, StockInResponse(v.s.tx, stock_in_id))

\* The flush that db.commit() starts with: the pending rows are inserted
\* with the ids the tables' counters hold now
db_flush(session, ai) == [session EXCEPT !.s = Flush([@ EXCEPT !.ai = ai])]

\* db.commit(), db.refresh(...) and return: merged, the store with the
\* transaction's rows, becomes the store's content, unless a constraint is
\* broken and IntegrityError leaves the handler
commit(v, d, merged) ==
    IF ~IntegrityOK(merged)
    THEN [db |-> d, ai |-> v.s.ai, session |-> Exited(v, 500, <<>>)]
    ELSE [db |-> merged, ai |-> v.s.ai,
          session |->
              CASE v.op = "add_sale_item" ->
                       Exited(v, 201, SaleItemResponse(merged, v.s.ai.sale_item - 1))
                [] v.op = "create_sale" ->
                       Exited(v, 201, SaleResponse(merged, v.parent))
                [] v.op = "create_stock_in" ->
                       Exited(v, 201, StockInResponse(merged, v.parent))
                [] v.op = "update_sale" ->
                       Exited(v, 200, SaleResponse(merged, v.req.sale_id))]

\* The store in which requests meet: the seeded products and a sale of the
\* second product
ConcurrentSeed ==
    create_sale(Seed2.db, Seed2.ai,
                [sale_datetime |-> None, payment_method |-> Cash, notes |-> None,
                 items |-> <<[product_id |-> 2, quantity |-> 1, unit_price |-> None,
                              discount |-> 0]>>])

ConcurrentRequests ==
    {[op |-> "create_sale",
      req |-> [sale_datetime |-> None, payment_method |-> Cash, notes |-> None,
               items |-> <<[product_id |-> 1, quantity |-> 1, unit_price |-> None,
                            discount |-> 0],
                           [product_id |-> 2, quantity |-> 1, unit_price |-> None,
                            discount |-> 0]>>]]}
    \cup {[op |-> "add_sale_item",
           req |-> [sale_id |-> id,
                    item |-> [product_id |-> 1, quantity |-> 1, unit_price |-> None,
                              discount |-> 0]]] : id \in {1, 2}}
    \cup {[op |-> "get_sale_by_id", req |-> [sale_id |-> 2]]}
    \cup {[op |-> "create_stock_in",
           req |-> [ref_no |-> None, stock_in_date |-> None, notes |-> None,
                    items |-> <<[product_id |-> 1, quantity |-> 1, unit_cost |-> 1],
                                [product_id |-> 2, quantity |-> 1, unit_cost |-> 1]>>]]}
    \cup {[op |-> "get_stock_in_by_id", req |-> [stock_in_id |-> 1]]}
    \cup {[op |-> "update_sale",
           req |-> [sale_id |-> 1, update |-> [payment_method |-> None]]]}

Step(r, session) ==
    \E next \in {session} :
        /\ sessions' = [sessions EXCEPT ![r] = next]
        /\ UNCHANGED <<db, autoinc, resp>>

\* A request arrives; the slots are taken in order
Acquire(r) ==
    /\ sessions[r].pc = "idle"
    /\ r > 1 => sessions[r - 1].pc # "idle"
    /\ \E request \in ConcurrentRequests :
          Step(r, get_db_acquire(request.op, request.req))

AddSaleItemCheck(r) ==
    /\ sessions[r].pc = "handler" /\ sessions[r].op = "add_sale_item"
    /\ \E v \in {Snapshot(sessions[r], db)} : Step(r, add_sale_item_check(v))

CreateSaleFlush(r) ==
    /\ sessions[r].pc = "handler" /\ sessions[r].op = "create_sale"
    /\ \E out \in {create_sale_flush(sessions[r], db, autoinc)} :
          /\ sessions' = [sessions EXCEPT ![r] = out.session]
          /\ db' = out.db
          /\ autoinc' = out.ai
          /\ UNCHANGED resp

CreateSaleCheckItems(r) ==
    /\ sessions[r].pc = "items"
    /\ \E v \in {Snapshot(sessions[r], db)} : Step(r, create_sale_check_items(v))

CreateStockInFlush(r) ==
    /\ sessions[r].pc = "handler" /\ sessions[r].op = "create_stock_in"
    /\ \E v \in {Snapshot(sessions[r], db)} :
       \E next \in {create_stock_in_flush(v, autoinc)} :
          /\ sessions' = [sessions EXCEPT ![r] = next]
          /\ autoinc' = next.s.ai
          /\ UNCHANGED <<db, resp>>

GetStockInQuery(r) ==
    /\ sessions[r].pc = "handler" /\ sessions[r].op = "get_stock_in_by_id"
    /\ \E v \in {Snapshot(sessions[r], db)} : Step(r, get_stock_in_query(v))

UpdateSaleCheck(r) ==
    /\ sessions[r].pc = "handler" /\ sessions[r].op = "update_sale"
    /\ \E v \in {Snapshot(sessions[r], db)} : Step(r, update_sale_check(v))

GetSaleQuery(r) ==
    /\ sessions[r].pc = "handler" /\ sessions[r].op = "get_sale_by_id"
    /\ \E v \in {Snapshot(sessions[r], db)} : Step(r, get_sale_query(v))

CommitStep(r) ==
    /\ sessions[r].pc = "commit"
    /\ \E v \in {db_flush(sessions[r], autoinc)} :
       \E merged \in {Merge(db, Own(v))} :
       \E out \in {commit(v, db, merged)} :
          /\ sessions' = [sessions EXCEPT ![r] = out.session]
          /\ db' = out.db
          /\ autoinc' = out.ai
          /\ UNCHANGED resp

\* The handler has left; get_db resumes after its yield.  The response is the
\* status and body the session record keeps
Close(r) ==
    /\ sessions[r].pc = "exited"
    /\ Step(r, get_db_finally(sessions[r]))

InitConcurrent ==
    /\ db = ConcurrentSeed.db
    /\ autoinc = ConcurrentSeed.ai
    /\ resp = NoResponse
    /\ sessions = [r \in Requests |-> NoSession]

NextConcurrent ==
    \/ \E r \in Requests : Acquire(r)
    \/ \E r \in Requests : AddSaleItemCheck(r)
    \/ \E r \in Requests : CreateSaleFlush(r)
    \/ \E r \in Requests : CreateSaleCheckItems(r)
    \/ \E r \in Requests : CreateStockInFlush(r)
    \/ \E r \in Requests : GetStockInQuery(r)
    \/ \E r \in Requests : UpdateSaleCheck(r)
    \/ \E r \in Requests : GetSaleQuery(r)
    \/ \E r \in Requests : CommitStep(r)
    \/ \E r \in Requests : Close(r)

SpecConcurrent == InitConcurrent /\ [][NextConcurrent]_vars

\* The steps of request r after it arrived
Run(r) ==
    \/ AddSaleItemCheck(r)
    \/ CreateSaleFlush(r)
    \/ CreateSaleCheckItems(r)
    \/ CreateStockInFlush(r)
    \/ GetStockInQuery(r)
    \/ UpdateSaleCheck(r)
    \/ GetSaleQuery(r)
    \/ CommitStep(r)
    \/ Close(r)

\* The server does not stop while a request it accepted can take a step
SpecSessions == SpecConcurrent /\ WF_vars(\E r \in Requests : Run(r))

\* C24: a request holds no session before it arrives, its session is closed
\* once the request is over, and a session that is open is closed eventually,
\* whether the handler returned, raised a client error or failed on the
\* store.
C24_SessionsClosed ==
    /\ [](\A r \in Requests :
             /\ sessions[r].pc = "idle" => ~sessions[r].open
             /\ sessions[r].pc = "closed" => ~sessions[r].open)
    /\ \A r \in Requests : sessions[r].open ~> ~sessions[r].open

\* The session of a request whose commit broke a constraint is closed while
\* another request is still running
C24_Witness ==
    \E r, q \in Requests :
        /\ sessions[r].pc = "closed"
        /\ sessions[r].status = 500
        /\ ~sessions[r].open
        /\ sessions[q].open

\* C27 (as claimed): whatever two add_sale_item requests for one sale and
\* one product do, the sale does not hold two items of that product.
C27_OneItemFromConcurrentAdds ==
    \A r, q \in Requests :
        /\ r # q
        /\ sessions[r].op = "add_sale_item" /\ sessions[q].op = "add_sale_item"
        /\ sessions[r].req = sessions[q].req
        /\ sessions[r].status = 201 /\ sessions[q].status = 201
        => Cardinality({i \in SaleItemsOf(db, sessions[r].req.sale_id) :
                           db.sale_item[i].product_id
                               = Some(sessions[r].req.item.product_id)}) <= 1

\* The rows of the items a create request sent are in content d under its
\* new parent
HasAllItems(d, session) ==
    \A k \in 1..Len(session.req.items) :
        IF session.op = "create_sale"
        THEN \E i \in SaleItemsOf(d, session.parent) :
                 d.sale_item[i].product_id = Some(session.req.items[k].product_id)
        ELSE \E i \in StockInItemsOf(d, session.parent) :
                 d.stock_in_item[i].product_id = Some(session.req.items[k].product_id)

\* Content d holds the parent the request created
HasParent(d, session) ==
    IF session.op = "create_sale"
    THEN session.parent \in DOMAIN d.sale
    ELSE session.parent \in DOMAIN d.stock_in

\* C28: a sale or stock-in that a create request has flushed is in the store,
\* and in what any other request reads, only together with all its items.
C28_ParentVisibleWithItems ==
    \A r \in Requests :
        sessions[r].op \in {"create_sale", "create_stock_in"} /\ sessions[r].parent # 0
        => /\ HasParent(db, sessions[r]) => HasAllItems(db, sessions[r])
           /\ \A q \in Requests \ {r} :
                 HasParent(sessions[q].s.tx, sessions[r])
                 => HasAllItems(sessions[q].s.tx, sessions[r])

\* A request read the store while another had flushed its new sale or
\* stock-in and not committed it, and did not see the parent
C28_Witness ==
    \E r, q \in Requests :
        /\ r # q
        /\ sessions[r].op \in {"create_sale", "create_stock_in"}
        /\ sessions[r].pc \in {"items", "commit"}
        /\ sessions[r].parent # 0
        /\ sessions[q].op \in {"get_sale_by_id", "get_stock_in_by_id", "add_sale_item"}
        /\ sessions[q].pc = "exited"
        /\ sessions[q].status = 404
        /\ ~HasParent(db, sessions[r])

---------------------------------------------------------------------------
(* The summaries of routers/report.py.  Money is counted in whole units and  *)
(* a percentage in hundredths of a percent, the two decimals round() keeps.  *)

SummaryMaxPercent == 10000

\* round(n / d * 100, 2) for d > 0, in hundredths; a tie goes to the even
\* neighbour
round2(n, d) ==
    LET q == (2 * SummaryMaxPercent * n + d) \div (2 * d)
    IN IF (2 * SummaryMaxPercent * n + d) % (2 * d) = 0 /\ q % 2 = 1 THEN q - 1 ELSE q

\* func.sum(...) `or 0`: the sum of value[id] over the rows ids
RECURSIVE SumOf(_, _)
SumOf(value, ids) ==
    IF ids = {} THEN 0
    ELSE LET id == CHOOSE i \in ids : TRUE
         IN value[id] + SumOf(value, ids \ {id})

Column(t, column) == [id \in DOMAIN t |-> t[id][column]]

\* stock_on_hand * price
StockValue(view) == [id \in DOMAIN view |-> view[id].stock_on_hand * view[id].price]

\* response_models.ProductStockSummary: every field ge=0, the percentage le=100
ProductStockSummaryOK(summary) ==
    /\ summary.total_products >= 0
    /\ summary.total_stock_value >= 0
    /\ summary.products_needing_restock >= 0
    /\ summary.restock_percentage >= 0
    /\ summary.restock_percentage <= SummaryMaxPercent

\* A response model that refuses its values raises ValidationError in the
\* handler: the request ends 500
Validated(ok, body, d0, s) ==
    IF ok THEN Exit(200, 0, body, d0, s) ELSE Exit(500, 0, <<>>, d0, s)

\* Faulty variant: the percentage is taken over all products, not the scope
get_product_stock_summary_unscoped(d0, ai, needs_restock_only) ==
    LET s == SessionLocal(d0, ai)
        view == s.tx.v_product_stock
        base_q == {id \in DOMAIN view : needs_restock_only => view[id].needs_restock = 1}
        total_products == Cardinality(base_q)
        products_needing_restock ==
            Cardinality({id \in base_q : view[id].needs_restock = 1})
        all_products == Cardinality(DOMAIN view)
        summary ==
            [total_products |-> total_products,
             total_stock_value |-> SumOf(StockValue(view), base_q),
             products_needing_restock |-> products_needing_restock,
             restock_percentage |->
                 round2(products_needing_restock,
                        IF all_products > 1 THEN all_products ELSE 1)]
    IN Validated(ProductStockSummaryOK(summary), summary, d0, s)

get_product_stock_summary(d0, ai, needs_restock_only) ==
    LET s == SessionLocal(d0, ai)
        view == s.tx.v_product_stock
        base_q == {id \in DOMAIN view : needs_restock_only => view[id].needs_restock = 1}
        total_products == Cardinality(base_q)
        products_needing_restock ==
            Cardinality({id \in base_q : view[id].needs_restock = 1})
        summary ==
            [total_products |-> total_products,
             total_stock_value |-> SumOf(StockValue(view), base_q),
             products_needing_restock |-> products_needing_restock,
             restock_percentage |->
                 round2(products_needing_restock,
                        IF total_products > 1 THEN total_products ELSE 1)]
    IN Validated(ProductStockSummaryOK(summary), summary, d0, s)

\* v_profitability_report: one row per sale item; the gross profit is the
\* revenue less the cost of the goods sold
ProfitabilityViewRow(sale_datetime, product_id, product_name, total_revenue, total_cogs) ==
    [sale_datetime |-> sale_datetime, product_id |-> product_id,
     product_name |-> product_name, total_revenue |-> total_revenue,
     total_cogs |-> total_cogs, gross_profit |-> total_revenue - total_cogs]

FilterProfitability(d, params) ==
    {id \in DOMAIN d.v_profitability_report :
        InDates(d.v_profitability_report[id].sale_datetime, params)}

\* group_by(product_id, product_name)
ProductGroups(view, q) ==
    {<<view[id].product_id, view[id].product_name>> : id \in q}

GroupRows(view, q, group) ==
    {id \in q : <<view[id].product_id, view[id].product_name>> = group}

\* order_by(func.sum(gross_profit).desc())
GroupProfitKey(view, q) ==
    [group \in ProductGroups(view, q) |->
        -SumOf(Column(view, "gross_profit"), GroupRows(view, q, group))]

\* response_models.MostProfitableProduct: total_profit ge=0
MostProfitableProductOK(product) == product.total_profit >= 0

\* response_models.ProfitabilitySummary: the counts and sums ge=0, the
\* margin ge=0 and le=100
ProfitabilitySummaryOK(summary) ==
    /\ summary.total_sales >= 0
    /\ summary.total_revenue >= 0
    /\ summary.total_cogs >= 0
    /\ summary.total_gross_profit >= 0
    /\ summary.average_profit_margin >= 0
    /\ summary.average_profit_margin <= SummaryMaxPercent

\* .limit(3)
TopLimit == 3

\* ordered: the product groups in the order the grouped query returned them
get_profitability_summary(d0, ai, params, ordered) ==
    LET s == SessionLocal(d0, ai)
        view == s.tx.v_profitability_report
        q == FilterProfitability(s.tx, params)
        total_sales == Cardinality(q)
        total_revenue == SumOf(Column(view, "total_revenue"), q)
        total_cogs == SumOf(Column(view, "total_cogs"), q)
        total_gross_profit == SumOf(Column(view, "gross_profit"), q)
        top_products_query == OffsetLimit(ordered, 0, TopLimit)
        top_profitable_products_list ==
            [i \in 1..Len(top_products_query) |->
                [name |-> top_products_query[i][2],
                 total_profit |->
                     SumOf(Column(view, "gross_profit"),
                           GroupRows(view, q, top_products_query[i]))]]
        summary ==
            [total_sales |-> total_sales, total_revenue |-> total_revenue,
             total_cogs |-> total_cogs, total_gross_profit |-> total_gross_profit,
             average_profit_margin |->
                 IF total_revenue > 0 THEN round2(total_gross_profit, total_revenue)
                 ELSE 0,
             top_profitable_products |-> Some(top_profitable_products_list)]
    IN
    IF ~DatesOK(params)
    THEN Raise(400, 0, d0, s)
    ELSE IF total_sales = 0
    THEN Validated(TRUE,
                   [total_sales |-> 0, total_revenue |-> 0, total_cogs |-> 0,
                    total_gross_profit |-> 0, average_profit_margin |-> 0,
                    top_profitable_products |-> None],
                   d0, s)
    ELSE Validated(/\ \A i \in 1..Len(top_profitable_products_list) :
                         MostProfitableProductOK(top_profitable_products_list[i])
                   /\ ProfitabilitySummaryOK(summary),
                   summary, d0, s)

GetProductStockSummary ==
    /\ resp = NoResponse
    /\ \E needs_restock_only \in BOOLEAN :
          Handle("get_product_stock_summary", [needs_restock_only |-> needs_restock_only],
                 get_product_stock_summary(db, autoinc, needs_restock_only))

GetProfitabilitySummary ==
    /\ resp = NoResponse
    /\ \E params \in DateFilters :
          IF ~DatesOK(params)
          THEN Handle("get_profitability_summary", params,
                      get_profitability_summary(db, autoinc, params, <<>>))
          ELSE \E ordered \in
                   Orderings(ProductGroups(db.v_profitability_report,
                                           FilterProfitability(db, params)),
                             GroupProfitKey(db.v_profitability_report,
                                            FilterProfitability(db, params))) :
                  Handle("get_profitability_summary", params,
                         get_profitability_summary(db, autoinc, params, ordered))

\* Rows of the profitability view: two days, two products, items sold above
\* cost, below cost, given away, and free of cost
ProfitabilityRows ==
    {ProfitabilityViewRow(day, product.id, product.name, money.revenue, money.cogs) :
        day \in {1, 2},
        product \in {[id |-> 1, name |-> Cup], [id |-> 2, name |-> Milk]},
        money \in {[revenue |-> 5, cogs |-> 2], [revenue |-> 5, cogs |-> 7],
                   [revenue |-> 0, cogs |-> 2], [revenue |-> 0, cogs |-> 0]}}

\* Stores of products with their rows of the stock view
StockViewDbs ==
    {[EmptyDb EXCEPT !.product = t,
                     !.v_product_stock =
                         [id \in DOMAIN t |-> StockViewRow(t[id], stock[id])]] :
        t \in ListProductTables, stock \in [1..MaxListRows -> {0, 20}]}

InitStockSummary ==
    /\ db \in StockViewDbs
    /\ autoinc = [InitAutoinc EXCEPT !.product = Cardinality(DOMAIN db.product) + 1]
    /\ resp = NoResponse
    /\ sessions = NoSessions

NextStockSummary ==
    \/ GetProductStockSummary
    \/ GetProductStockReport

SpecStockSummary == InitStockSummary /\ [][NextStockSummary]_vars

ProfitabilityDbs ==
    UNION {{[EmptyDb EXCEPT !.v_profitability_report = t] :
               t \in [1..n -> ProfitabilityRows]} : n \in 0..MaxViewRows}

InitProfitability ==
    /\ db \in ProfitabilityDbs
    /\ autoinc = InitAutoinc
    /\ resp = NoResponse
    /\ sessions = NoSessions

NextProfitability == GetProfitabilitySummary

SpecProfitability == InitProfitability /\ [][NextProfitability]_vars

\* C25 (as claimed): a profitability summary whose dates parse answers with
\* zeros when no row matches, and with a margin of 0 when the matching rows
\* sum to a revenue of 0.
C25_ZeroRevenueSummary ==
    resp.op = "get_profitability_summary" /\ DatesOK(resp.req)
    => LET q == FilterProfitability(db, resp.req) IN
       /\ q = {} =>
             /\ resp.status = 200
             /\ resp.body.total_sales = 0
             /\ resp.body.total_revenue = 0
             /\ resp.body.total_cogs = 0
             /\ resp.body.total_gross_profit = 0
             /\ resp.body.average_profit_margin = 0
       /\ q # {} /\ SumOf(Column(db.v_profitability_report, "total_revenue"), q) = 0 =>
             /\ resp.status = 200
             /\ resp.body.average_profit_margin = 0

C30_SummaryWithinBounds ==
    /\ resp.op = "get_profitability_summary"
    /\ DatesOK(resp.req)
    /\ FilterProfitability(db, resp.req) # {}
    => /\ resp.status = 200
       /\ ProfitabilitySummaryOK(resp.body)
       /\ LET top == Val(resp.body.top_profitable_products) IN
          /\ Len(top) <= TopLimit
          /\ \A i, j \in 1..Len(top) :
                /\ i # j => top[i].name # top[j].name
                /\ i < j => top[i].total_profit >= top[j].total_profit
          /\ \A i \in 1..Len(top) : MostProfitableProductOK(top[i])

---------------------------------------------------------------------------
(* A client reading a list page after page: every page is a request of its   *)
(* own, with its own ORDER BY ... LIMIT ... OFFSET query.                    *)

\* The request for the page after the one just answered
NextPageParams == [resp.req EXCEPT !.page = @ + 1]

HasNextPage(op) ==
    /\ resp.op = op
    /\ resp.status = 200
    /\ resp.body.has_next
    /\ resp.req.page < MaxPage

NextPageOfSales ==
    /\ HasNextPage("get_all_sales")
    /\ \E ordered \in Orderings(FilterSales(db, NextPageParams),
                                DescKey(db.sale, "sale_datetime")) :
          Handle("get_all_sales", NextPageParams,
                 get_all_sales(db, autoinc, NextPageParams, ordered))

NextPageOfStockIn ==
    /\ HasNextPage("get_all_stock_in")
    /\ \E ordered \in Orderings(FilterStockIns(db, NextPageParams),
                                DescKey(db.stock_in, "stock_in_date")) :
          Handle("get_all_stock_in", NextPageParams,
                 get_all_stock_in(db, autoinc, NextPageParams, ordered))

NextPageOfInventoryMovements ==
    /\ HasNextPage("get_all_inventory_movements")
    /\ \E ordered \in Orderings(FilterMovements(db, NextPageParams),
                                DescKey(db.inventory_movement, "movement_date")) :
          Handle("get_all_inventory_movements", NextPageParams,
                 get_all_inventory_movements(db, autoinc, NextPageParams, ordered))

NextPageOfProductStock ==
    /\ HasNextPage("get_product_stock_report")
    /\ \E ordered \in Orderings(FilterProductStock(db, NextPageParams),
                                NameKey(db.v_product_stock)) :
          Handle("get_product_stock_report", NextPageParams,
                 get_product_stock_report(db, autoinc, NextPageParams, ordered))

NextPages ==
    \/ GetAllSales
    \/ GetAllStockIn
    \/ GetAllInventoryMovements
    \/ GetProductStockReport
    \/ NextPageOfSales
    \/ NextPageOfStockIn
    \/ NextPageOfInventoryMovements
    \/ NextPageOfProductStock

SpecPages == InitAllLists /\ [][NextPages]_vars

\* C29 (as claimed): a page and the page after it, read one after the other
\* from the same store with the same filters, hold different records.
C29_PagesShareNoRecord ==
    [][/\ resp.op \in {"get_all_sales", "get_all_stock_in",
                       "get_all_inventory_movements", "get_product_stock_report"}
       /\ resp.status = 200
       /\ resp'.op = resp.op
       /\ resp'.status = 200
       /\ resp'.req = NextPageParams
       => \A i \in 1..Len(resp.body.items), j \in 1..Len(resp'.body.items) :
              resp.body.items[i] # resp'.body.items[j]]_vars

=============================================================================
